---- MODULE Spec2Model ----
(***************************************************************************)
(* A model of the PromptQL MCP bridge (hasura/promptql-mcp):               *)
(*   - PromptQLClient  (src/promptql_mcp_server/api/promptql_client.py)    *)
(*   - the MCP tools   (src/promptql_mcp_server/server.py)                 *)
(*   - ConfigManager   (src/promptql_mcp_server/config.py)                 *)
(*                                                                         *)
(* JSON values are modelled by their shape.  An HTTP body is a JSON        *)
(* object, a JSON value that is no object, or text that does not parse; a  *)
(* member of an object is absent, null or of its documented type.          *)
(* Python's None, a JSON null and the result of dict.get on an absent key  *)
(* are all the value None.                                                 *)
(***************************************************************************)
EXTENDS Integers, Sequences, FiniteSets, TLC

VARIABLES
    fn_input,            \* the thread snapshot handed to _is_thread_complete or to a tool body
    fn_output,           \* what was made of it
    sse_lines,           \* the lines response.iter_lines() has yielded
    sse_pos,             \* number of lines consumed by the for loop
    thread_state,        \* local of _parse_sse_stream
    current_event_type,  \* local of _parse_sse_stream
    sse_pc,              \* "idle" | "reading" | "returned"
    sse_exc,             \* how the try block was left: "none" | "read" | "payload"
    sse_ret,             \* return value of _parse_sse_stream
    sse_closed,          \* response.close() was called
    config,              \* ConfigManager.config of the server process
    tool_name,           \* the MCP tool the host called last
    tool_pc,             \* "idle" | "running" | "returned"
    tool_result,         \* the dict the tool returned to the host
    call_op,             \* the PromptQLClient method in progress or returned last
    call_caller,         \* "tool" | "direct": who called the client method
    call_pc,             \* "idle" | "post" | "request" | "poll" | "sleep" | "returned" | "raised"
    call_tid,            \* the thread_id the client method works on
    post_resp,           \* the answer to the POST or to the artifact GET of this call
    call_result,         \* the dict the client method returned
    elapsed,             \* time.time() - start_time in _poll_thread_completion
    n_posts,             \* POST requests issued by this call (start, continue, cancel)
    n_fetches,           \* GETs issued by this call (thread status, artifact data)
    n_processing,        \* status GETs of this call that reported processing
    last_status,         \* result of the last get_thread_status of this call
    last_fetch_tid,      \* thread id in the URL of the last status GET
    max_wait_time,       \* parameter of _poll_thread_completion
    poll_interval,       \* parameter of _poll_thread_completion
    call_aid,            \* the artifact_id argument of get_artifact
    cancel_pc,           \* a cancel_thread call of another caller: "idle" | "post" | "returned"
    cancel_tid,          \* the thread that call cancels
    cancel_result,       \* the dict that call returned
    remote_processing,   \* the remote service is processing an interaction of thread t1
    remote_snapshot,     \* the thread state the remote service reports for thread t1
    status_seen,         \* what the most recent get_thread_status said of thread t1
    environ,             \* os.environ: the value of PROMPTQL_<KEY> per key
    config_file,         \* the content of ~/.promptql-mcp/config.json
    cfg_call,            \* the configuration call or client construction made last: its arguments, how it ended
    client,              \* the PromptQLClient the calling program holds
    sent,                \* the body of the request the client sent last
    log,                 \* the log records the last call wrote
    writers,             \* per process with its own ConfigManager: its config, and whether it holds the file open
    last_write           \* the process that wrote the config file last, and the config it dumped

fnVars == <<fn_input, fn_output>>
sseVars == <<sse_lines, sse_pos, thread_state, current_event_type, sse_pc, sse_exc, sse_ret, sse_closed>>
toolVars == <<config, tool_name, tool_pc, tool_result>>
callVars == <<call_op, call_caller, call_pc, call_tid, post_resp, call_result, elapsed,
              n_posts, n_fetches, n_processing, last_status, last_fetch_tid,
              max_wait_time, poll_interval, call_aid>>
cancelVars == <<cancel_pc, cancel_tid, cancel_result>>
remoteVars == <<remote_processing, remote_snapshot, status_seen>>
mainVars == <<toolVars, callVars, cancelVars, remoteVars>>
cfgVars == <<environ, config_file, cfg_call, client, sent, log, writers, last_write>>
vars == <<fnVars, sseVars, mainVars, cfgVars>>

----------------------------------------------------------------------------
(* Bounds of the model *)

MaxActions == 2        \* assistant actions in the latest interaction
MaxPrior == 1          \* interactions before the latest one
MaxLines == 5          \* lines of an SSE response

----------------------------------------------------------------------------
(* JSON shapes *)

None == "None"
Absent == "<absent>"
\* a slot that holds a dict or nothing yet
NoneRec == [kind |-> "None"]
Unset == [kind |-> "unset"]

\* dict.get(key) on a member that is absent, null or set
Get(v) == IF v = Absent THEN None ELSE v

\* Python truthiness of a string-or-None member
Truthy(v) == v # None /\ v # ""

\* the configuration keys; environ holds PROMPTQL_<KEY> under the key
Keys == {"api_key", "playground_url", "auth_token", "auth_mode"}

\* no PROMPTQL_* variable is set
NoEnviron == [k \in Keys |-> Absent]

\* ConfigManager.config with all four values stored
ConfiguredPublic ==
    [api_key |-> "key", playground_url |-> "url", auth_token |-> "token", auth_mode |-> "public"]

Statuses == {"processing", "complete"}
Messages == {Absent, None, "", "m1", "m2"}
Timestamps == {Absent, None, "t"}

\* An assistant action: the members _is_thread_complete and the tools read.
Actions == [status : Statuses, message : Messages, llm_call_end_timestamp : Timestamps]

RECURSIVE SeqsUpTo(_, _)
SeqsUpTo(S, n) ==
    IF n = 0 THEN {<<>>}
    ELSE LET shorter == SeqsUpTo(S, n - 1)
         IN  shorter \cup {Append(s, x) : s \in {t \in shorter : Len(t) = n - 1}, x \in S}

Interaction(id, acts) == [interaction_id |-> id, assistant_actions |-> acts]

EmptyDict == [kind |-> "empty"]

\* A non-empty thread state dict; keys is the set of optional members it carries.
ThreadData(keys, ints, tid, title, version) ==
    [kind |-> "state", keys |-> keys, interactions |-> ints,
     thread_id |-> tid, title |-> title, version |-> version]

\* thread_data.get("interactions", [])
interactions_of(thread_data) ==
    IF thread_data.kind = "state" /\ "interactions" \in thread_data.keys
    THEN thread_data.interactions
    ELSE <<>>

----------------------------------------------------------------------------
(* PromptQLClient._is_thread_complete *)

\* the mutant: only the status is looked at
completion_indicators_status_only(last_action) ==
    Get(last_action.status) = "complete"

completion_indicators(last_action) ==
    \/ Get(last_action.status) = "complete"
    \/ Get(last_action.message) # None
    \/ last_action.llm_call_end_timestamp # Absent     \* "llm_call_end_timestamp" in last_action

\* the mutant: any action of the latest interaction counts, not only the last
is_thread_complete_any(thread_data) ==
    LET interactions == interactions_of(thread_data) IN
    IF interactions = <<>> THEN FALSE
    ELSE LET assistant_actions == interactions[Len(interactions)].assistant_actions
         IN  \E i \in 1..Len(assistant_actions) : completion_indicators(assistant_actions[i])

\* the mutant: an empty interactions list counts as complete
is_thread_complete_empty(thread_data) ==
    LET interactions == interactions_of(thread_data) IN
    IF interactions = <<>> THEN TRUE
    ELSE LET assistant_actions == interactions[Len(interactions)].assistant_actions
         IN  IF assistant_actions # <<>>
             THEN completion_indicators(assistant_actions[Len(assistant_actions)])
             ELSE FALSE

_is_thread_complete(thread_data) ==
    LET interactions == interactions_of(thread_data) IN
    IF interactions = <<>> THEN FALSE
    ELSE LET latest_interaction == interactions[Len(interactions)]
             assistant_actions == latest_interaction.assistant_actions
         IN  IF assistant_actions # <<>>
             THEN completion_indicators(assistant_actions[Len(assistant_actions)])
             ELSE FALSE

\* the mutant: an empty parse result counts as a thread still processing
status_result_empty_is_processing(thread_id, thread_data) ==
    [kind |-> "status", thread_id |-> thread_id,
     status |-> IF thread_data.kind # "empty" /\ _is_thread_complete(thread_data)
                THEN "complete" ELSE "processing",
     thread_data |-> thread_data]

\* PromptQLClient.get_thread_status, lines 129-137: the result built from the
\* parsed thread_data of a 200 response.
status_result(thread_id, thread_data) ==
    IF thread_data.kind # "empty"
    THEN [kind |-> "status", thread_id |-> thread_id,
          status |-> IF _is_thread_complete(thread_data) THEN "complete" ELSE "processing",
          thread_data |-> thread_data]
    ELSE [kind |-> "error", error |-> "Failed to parse thread status from SSE stream"]

----------------------------------------------------------------------------
(* PromptQLClient._parse_sse_stream *)

CTS == "current-thread-state"
IU == "interaction-update"

\* The lines of a response body, as line.startswith tells them apart.
EventLine(etype) == [t |-> "event", etype |-> etype]     \* 'event: <etype>'
DataLine(payload) == [t |-> "data", payload |-> payload] \* 'data: <payload>'
BlankLine == [t |-> "blank"]                             \* ''
\* any other line: an id:/retry: field, or a line of a plain JSON body
OtherLine(body) == [t |-> "other", body |-> body]

\* The text after 'data: ': not JSON, or a JSON object with these members.
\* event: the member read for an interaction-update, absent, an object, or a
\* value of another type (null, a string).
InvalidJson == [json |-> "invalid"]
\* JSON that is no object and no container: null, a number
NonObjectJson == [json |-> "nonobject"]
Payload(ts, tid, title, version, event) ==
    [json |-> "object", thread_state |-> ts, thread_id |-> tid, title |-> title,
     version |-> version, event |-> event]

\* values of the thread_state member
TsAbsent == [kind |-> "absent"]
TsNull == [kind |-> "null"]
TsEmpty == [kind |-> "empty"]
TsState(keys, ints) == [kind |-> "state", keys |-> keys, interactions |-> ints]

\* lines 346-349: new_state.copy() with the envelope's metadata added
enhanced_state(event_data) ==
    ThreadData(event_data.thread_state.keys, event_data.thread_state.interactions,
               Get(event_data.thread_id), Get(event_data.title), Get(event_data.version))

\* the mutant: the first snapshot is kept, later ones are dropped
on_current_thread_state_first_wins(st, event_data) ==
    IF /\ event_data.thread_state.kind = "state"
       /\ st.thread_state.kind # "state"
    THEN [st EXCEPT !.thread_state = enhanced_state(event_data)]
    ELSE st

\* lines 338-353
on_current_thread_state(st, event_data) ==
    IF /\ event_data.thread_state.kind # "absent"       \* "thread_state" in event_data
       /\ event_data.thread_state.kind = "state"        \* if new_state:
    THEN [st EXCEPT !.thread_state = enhanced_state(event_data)]
    ELSE st

\* line 357: the f-string is evaluated whatever the log level, and
\* event_data.get('event', {}).get(...) raises AttributeError unless the event
\* member is absent or an object.
on_interaction_update(st, event_data) ==
    IF event_data.event \in {Absent, "object"}
    THEN st
    ELSE [st EXCEPT !.raised = TRUE]

\* lines 331-366: one 'data: ' line.  On null or a number the membership
\* test of line 341 raises TypeError and the .get of line 357 AttributeError.
on_data_line(st, payload) ==
    IF payload.json = "invalid" THEN st                  \* JSONDecodeError: continue
    ELSE IF st.current_event_type = CTS
    THEN IF payload.json = "nonobject" THEN [st EXCEPT !.raised = TRUE]
         ELSE on_current_thread_state(st, payload)
    ELSE IF st.current_event_type = IU
    THEN IF payload.json = "nonobject" THEN [st EXCEPT !.raised = TRUE]
         ELSE on_interaction_update(st, payload)
    ELSE st

\* the mutant: the event type outlives the empty line that ends the event
sse_step_no_reset(st, line) ==
    IF line.t = "event" THEN [st EXCEPT !.current_event_type = line.etype]
    ELSE IF line.t = "data" THEN on_data_line(st, line.payload)
    ELSE st

\* lines 321-375: the body of the for loop on one line; st holds the locals
\* thread_state and current_event_type, and raised when the body raises.
sse_step(st, line) ==
    IF line.t = "event" THEN [st EXCEPT !.current_event_type = line.etype]
    ELSE IF line.t = "data" THEN on_data_line(st, line.payload)
    ELSE IF line.t = "blank" THEN [st EXCEPT !.current_event_type = None]
    ELSE st

\* line 387: thread_state or {}
or_empty(ts) == IF ts.kind = "state" THEN ts ELSE EmptyDict

\* the mutant: a stream that breaks gives the snapshot parsed so far
stream_failure_result_partial(ts) == or_empty(ts)

\* lines 377-379: except Exception: return {}
stream_failure_result(ts) == EmptyDict

\* _parse_sse_stream on a response whose lines are all delivered
RECURSIVE sse_fold(_, _, _)
sse_fold(st, lines, i) ==
    IF st.raised THEN stream_failure_result(st.thread_state)
    ELSE IF i > Len(lines) THEN or_empty(st.thread_state)
    ELSE sse_fold(sse_step(st, lines[i]), lines, i + 1)

SseStart == [thread_state |-> NoneRec, current_event_type |-> None, raised |-> FALSE]

parse_sse_stream(lines) == sse_fold(SseStart, lines, 1)

----------------------------------------------------------------------------
(* PromptQLClient: the requests and what the methods make of the answers *)

DefaultMaxWaitTime == 120      \* _poll_thread_completion(max_wait_time=120)
DefaultPollInterval == 2       \* _poll_thread_completion(poll_interval=2)
RequestTimeout == 30           \* requests.get(..., timeout=30)

\* an {"error": ...} result; status_code is the HTTP status quoted in the
\* message (0 when it quotes none), details tells whether "details" is there
Err(e) == [kind |-> "error", error |-> e, status_code |-> 0, details |-> FALSE]
ApiErr(e, code) == [kind |-> "error", error |-> e, status_code |-> code, details |-> TRUE]

IsError(result) == result.kind = "error"                 \* "error" in result

\* Answers to POST /start and POST /<thread_id>/continue
PostException == [kind |-> "exception"]                  \* requests.post raised
PostHttp(code) == [kind |-> "http", code |-> code]       \* status_code != 200
PostUnparsable == [kind |-> "unparsable"]                \* 200, body is not JSON
PostOk(tid, iid) == [kind |-> "ok", thread_id |-> tid, interaction_id |-> iid]
PostNonObject == [kind |-> "nonobject"]                  \* 200, body is JSON but no object

\* an exception that leaves the method
Raised(exc) == [kind |-> "raised", exc |-> exc]

\* the {"thread_id", "interaction_id"} dict of a 200 answer
Started(tid, iid) == [kind |-> "started", thread_id |-> tid, interaction_id |-> iid]

\* lines 254-284; result.get on a body that is no object raises AttributeError,
\* which the except json.JSONDecodeError of line 281 does not catch
_start_thread(resp) ==
    IF resp.kind = "exception" THEN Err("Connection error")
    ELSE IF resp.kind = "http" THEN ApiErr("API error", resp.code)
    ELSE IF resp.kind = "unparsable" THEN Err("Failed to parse thread start response")
    ELSE IF resp.kind = "nonobject" THEN Raised("AttributeError")
    ELSE IF ~Truthy(Get(resp.thread_id)) THEN Err("No thread_id received from API")
    ELSE Started(Get(resp.thread_id), Get(resp.interaction_id))

\* lines 457-486: the returned thread id is compared and logged, not checked
_continue_thread(resp) ==
    IF resp.kind = "exception" THEN Err("Connection error")
    ELSE IF resp.kind = "http" THEN ApiErr("API error", resp.code)
    ELSE IF resp.kind = "unparsable" THEN Err("Failed to parse thread continue response")
    ELSE IF resp.kind = "nonobject" THEN Raised("AttributeError")
    ELSE Started(Get(resp.thread_id), Get(resp.interaction_id))

\* Answers to GET /<thread_id>
GetTimeout == [kind |-> "timeout"]                       \* requests.exceptions.Timeout
GetConnectionError == [kind |-> "connection"]            \* requests.exceptions.ConnectionError
GetException == [kind |-> "exception"]                   \* any other exception
GetHttp(code) == [kind |-> "http", code |-> code]        \* status_code != 200
\* 200 with these lines; broken: iter_lines raises before the body ends
GetOk(lines, broken) == [kind |-> "ok", lines |-> lines, broken |-> broken]

\* lines 105-147
get_thread_status(thread_id, resp) ==
    IF resp.kind = "timeout" THEN Err("Request timeout while getting thread status")
    ELSE IF resp.kind = "connection" THEN Err("Connection error while getting thread status")
    ELSE IF resp.kind = "exception" THEN Err("Status error")
    ELSE IF resp.kind = "http" THEN ApiErr("Status error", resp.code)
    ELSE status_result(thread_id,
                       IF resp.broken THEN EmptyDict ELSE parse_sse_stream(resp.lines))

\* the mutant: the poll loop hands back whatever snapshot it fetched first
poll_outcome_no_wait(status_result_) ==
    IF IsError(status_result_) THEN "return_error" ELSE "return_data"

\* the mutant: a failed status fetch is tried again after the sleep
poll_outcome_retry_errors(status_result_) ==
    IF ~IsError(status_result_) /\ status_result_.status = "complete" THEN "return_data"
    ELSE "sleep"

\* lines 296-307: what one iteration of the poll loop does with a status result
poll_outcome(status_result_) ==
    IF IsError(status_result_) THEN "return_error"
    ELSE IF status_result_.status = "complete" THEN "return_data"
    ELSE "sleep"

\* the mutant: the loop runs once more when the clock stands at the budget
budget_left_inclusive(elapsed_, max_wait_time_) == elapsed_ <= max_wait_time_

\* line 292: while time.time() - start_time < max_wait_time
budget_left(elapsed_, max_wait_time_) == elapsed_ < max_wait_time_

\* Answers to POST /<thread_id>/cancel
CancelException == [kind |-> "exception"]                \* requests.post raised
CancelHttp(code) == [kind |-> "http", code |-> code]

\* the mutant: a 400 is reported like any other status
cancel_thread_generic_400(thread_id, resp) ==
    IF resp.kind = "exception" THEN Err("Cancel error")
    ELSE IF resp.code = 200
    THEN [kind |-> "cancelled", thread_id |-> thread_id, status |-> "cancelled"]
    ELSE ApiErr("Cancel error", resp.code)

\* lines 149-180
cancel_thread(thread_id, resp) ==
    IF resp.kind = "exception" THEN Err("Cancel error")
    ELSE IF resp.code = 200
    THEN [kind |-> "cancelled", thread_id |-> thread_id, status |-> "cancelled"]
    ELSE IF resp.code = 400
    THEN [kind |-> "error", error |-> "Cannot cancel thread", status_code |-> 0,
          details |-> TRUE]
    ELSE ApiErr("Cancel error", resp.code)

CancelResponses == {CancelException} \cup {CancelHttp(code) : code \in {200, 400, 404, 500}}

\* Bodies of an artifact: the text, the value json.loads gives for it (or that
\* it does not parse), its length in characters and in bytes.
BodyJsonObject ==
    [text |-> "{\"a\": 1}", valid |-> TRUE, value |-> "dict(a=1)", chars |-> 8, bytes |-> 8]
BodyJsonNull == [text |-> "null", valid |-> TRUE, value |-> None, chars |-> 4, bytes |-> 4]
BodyText == [text |-> "h<e acute>llo", valid |-> FALSE, value |-> Absent, chars |-> 5, bytes |-> 6]
BodyEmpty == [text |-> "", valid |-> FALSE, value |-> Absent, chars |-> 0, bytes |-> 0]

ArtifactBodies == {BodyJsonObject, BodyJsonNull, BodyText, BodyEmpty}
ContentTypes == {Absent, "image/png"}

\* Answers to GET /<thread_id>/artifacts/<artifact_id>/data
ArtifactException == [kind |-> "exception"]
ArtifactHttp(code) == [kind |-> "http", code |-> code]
ArtifactOk(body, ctype) == [kind |-> "ok", code |-> 200, body |-> body, content_type |-> ctype]

ArtifactData(thread_id, artifact_id, ctype, data, size) ==
    [kind |-> "artifact", thread_id |-> thread_id, artifact_id |-> artifact_id,
     content_type |-> ctype, data |-> data, size |-> size]

ArtifactNotFound ==
    [kind |-> "error", error |-> "Artifact not found", status_code |-> 0, details |-> TRUE]

\* the mutant: a body that is not JSON is an error, and the size counts characters
get_artifact_json_only(thread_id, artifact_id, resp) ==
    IF resp.kind = "exception" THEN Err("Artifact error")
    ELSE IF resp.kind = "ok"
    THEN IF resp.body.valid
         THEN ArtifactData(thread_id, artifact_id,
                           IF resp.content_type = Absent THEN "application/json"
                           ELSE resp.content_type,
                           resp.body.value, resp.body.chars)
         ELSE Err("Artifact error")
    ELSE IF resp.code = 404 THEN ArtifactNotFound
    ELSE ApiErr("Artifact error", resp.code)

\* lines 182-227
get_artifact(thread_id, artifact_id, resp) ==
    IF resp.kind = "exception" THEN Err("Artifact error")
    ELSE IF resp.kind = "ok"
    THEN IF resp.body.valid
         THEN ArtifactData(thread_id, artifact_id,
                           IF resp.content_type = Absent THEN "application/json"
                           ELSE resp.content_type,
                           resp.body.value, resp.body.bytes)
         ELSE ArtifactData(thread_id, artifact_id,
                           IF resp.content_type = Absent THEN "text/plain"
                           ELSE resp.content_type,
                           resp.body.text, resp.body.bytes)
    ELSE IF resp.code = 404 THEN ArtifactNotFound
    ELSE ApiErr("Artifact error", resp.code)

ArtifactResponses ==
    {ArtifactException, ArtifactHttp(404), ArtifactHttp(500)}
    \cup {ArtifactOk(body, ctype) : body \in ArtifactBodies, ctype \in ContentTypes}

\* the mutant: a request that failed is sent once more
retry_request_on_failure(n_sent, result) == result.kind \in {"error", "raised"} /\ n_sent < 2

\* _start_thread 254-268, _continue_thread 457-471, cancel_thread 160-180,
\* get_artifact 186-227: each sends its request in straight-line code and
\* returns what it makes of the answer; no loop leads back to the request
retry_request(n_sent, result) == FALSE

\* the mutant: the poll follows the thread id of the answer
poll_thread_id_of_answer(op, thread_id, result) == result.thread_id

\* lines 68-74 and 103: start_thread polls the thread id of the start answer,
\* continue_thread the thread id its caller passed
poll_thread_id(op, thread_id, result) ==
    IF op = "start_thread" THEN result.thread_id ELSE thread_id

\* the mutant: a cancel call makes the poll in flight return
poll_pc_after_cancel_interrupted(pc) == "returned"

\* lines 149-180 assign only locals of cancel_thread: a poll in flight stays
\* where it is
poll_pc_after_cancel(pc) == pc

\* the mutant: the exhausted budget is reported like a request that timed out
PollTimeoutAsRequestTimeout == Err("Request timeout while getting thread status")

\* line 310
PollTimeoutError == Err("Thread processing timeout")

\* the mutant: the non-waiting variant waits as well
polls_after_post_always(op) == TRUE

\* lines 74, 89, 103: start_thread and continue_thread go on to poll,
\* start_thread_without_polling returns the answer of _start_thread
polls_after_post(op) == op \in {"start_thread", "continue_thread"}

\* lines 76-81: start_thread puts the ids of the start answer into the snapshot
with_start_ids(thread_data, started) ==
    [kind |-> "state", keys |-> thread_data.keys, interactions |-> thread_data.interactions,
     thread_id |-> started.thread_id, title |-> thread_data.title,
     version |-> thread_data.version, interaction_id |-> started.interaction_id]

\* what the method returns when its poll ends with this snapshot
poll_data_result(op, thread_data, started) ==
    IF op = "start_thread" THEN with_start_ids(thread_data, started) ELSE thread_data

----------------------------------------------------------------------------
(* The MCP tools of server.py *)

\* what class ConfigManager defines (config.py, lines 16-102)
ConfigManagerAttributes ==
    {"config_dir", "config_file", "config", "_load_config", "save_config", "get", "set",
     "is_configured"}

\* _get_promptql_client, lines 19-31: the three values are read, then
\* config.get_auth_mode() is called, which ConfigManager does not define
\* (AttributeError); were it defined it would give the stored mode or "public".
_get_promptql_client(cfg) ==
    IF "get_auth_mode" \notin ConfigManagerAttributes
    THEN [kind |-> "raised", exc |-> "AttributeError"]
    ELSE IF ~Truthy(cfg.api_key) \/ ~Truthy(cfg.playground_url) \/ ~Truthy(cfg.auth_token)
    THEN [kind |-> "raised", exc |-> "ValueError"]
    ELSE IF (IF cfg.auth_mode = None THEN "public" ELSE cfg.auth_mode) \notin {"public", "private"}
    THEN [kind |-> "raised", exc |-> "ValueError"]
    ELSE [kind |-> "client"]

NoAnswer == "No answer received from PromptQL."

\* the mutant: the scan runs from the first action on
RECURSIVE extract_answer_first(_, _)
extract_answer_first(assistant_actions, i) ==
    IF i < 1 \/ i > Len(assistant_actions) THEN NoAnswer
    ELSE IF Truthy(Get(assistant_actions[Len(assistant_actions) + 1 - i].message))
    THEN assistant_actions[Len(assistant_actions) + 1 - i].message
    ELSE extract_answer_first(assistant_actions, i - 1)

\* server.py 203-208 and 399-404: for action in reversed(assistant_actions);
\* i is the index the scan stands at
RECURSIVE extract_answer(_, _)
extract_answer(assistant_actions, i) ==
    IF i < 1 THEN NoAnswer
    ELSE IF Truthy(Get(assistant_actions[i].message)) THEN assistant_actions[i].message
    ELSE extract_answer(assistant_actions, i - 1)

\* the mutant: only the last action of the latest interaction is asked
answer_text_last_action(result) ==
    LET interactions == interactions_of(result) IN
    IF interactions = <<>> THEN NoAnswer
    ELSE LET assistant_actions == interactions[Len(interactions)].assistant_actions
         IN  IF assistant_actions = <<>> THEN NoAnswer
             ELSE extract_answer(SubSeq(assistant_actions, Len(assistant_actions),
                                        Len(assistant_actions)), 1)

\* server.py 196-208: the answer of a thread snapshot
answer_text(result) ==
    LET interactions == interactions_of(result) IN
    IF interactions = <<>> THEN NoAnswer
    ELSE LET assistant_actions == interactions[Len(interactions)].assistant_actions
         IN  extract_answer(assistant_actions, Len(assistant_actions))

\* action.get(name) for the members only some actions carry
Member(action, name) == IF name \in DOMAIN action THEN action[name] ELSE None

\* server.py 211-228 and 407-424: the loop over the actions of the latest
\* interaction appends every truthy value of the member; i is the index of the
\* action the loop has reached
RECURSIVE collect(_, _, _)
collect(assistant_actions, name, i) ==
    IF i > Len(assistant_actions) THEN <<>>
    ELSE (IF Truthy(Get(Member(assistant_actions[i], name)))
          THEN <<Member(assistant_actions[i], name)>> ELSE <<>>)
         \o collect(assistant_actions, name, i + 1)

\* plans, code_blocks or code_outputs of a thread snapshot
collected(result, name) ==
    LET interactions == interactions_of(result) IN
    IF interactions = <<>> THEN <<>>
    ELSE collect(interactions[Len(interactions)].assistant_actions, name, 1)

\* action.get("artifact_identifiers", [])
artifact_identifiers_of(action) ==
    IF "artifact_identifiers" \in DOMAIN action THEN action.artifact_identifiers ELSE <<>>

\* the inner loop of 235-239 and 431-434 over the actions of one interaction
RECURSIVE extend_with_actions(_, _)
extend_with_actions(assistant_actions, i) ==
    IF i > Len(assistant_actions) THEN <<>>
    ELSE artifact_identifiers_of(assistant_actions[i])
         \o extend_with_actions(assistant_actions, i + 1)

\* the mutant: only the latest interaction is searched for artifacts
RECURSIVE artifacts_found_latest_only(_, _)
artifacts_found_latest_only(interactions, k) ==
    IF interactions = <<>> THEN <<>>
    ELSE extend_with_actions(interactions[Len(interactions)].assistant_actions, 1)

\* server.py 231-239 and 427-434: the outer loop over all interactions; k is
\* the index of the interaction the loop has reached
RECURSIVE artifacts_found(_, _)
artifacts_found(interactions, k) ==
    IF k > Len(interactions) THEN <<>>
    ELSE extend_with_actions(interactions[k].assistant_actions, 1)
         \o artifacts_found(interactions, k + 1)

ToolFailure(error, tid, trace) ==
    [success |-> FALSE, error |-> error, thread_id |-> tid, interaction_id |-> None,
     error_trace |-> trace]

\* the except clauses: 258-269, 332-343 (with error_trace), 458-465 (without)
tool_unexpected_error(tool, tid) ==
    IF tool \in {"start_thread", "start_thread_without_polling"}
    THEN ToolFailure("Unexpected error", None, TRUE)
    ELSE ToolFailure("Unexpected error", tid, FALSE)

\* start_thread, lines 164-256
start_thread_tool(result) ==
    IF IsError(result) THEN ToolFailure(result.error, None, FALSE)
    ELSE IF ~Truthy(result.thread_id)
    THEN ToolFailure("No thread_id received from PromptQL", None, FALSE)
    ELSE [success |-> TRUE, thread_id |-> result.thread_id,
          interaction_id |-> result.interaction_id, answer |-> answer_text(result),
          plans |-> collected(result, "plan"),
          code_blocks |-> collected(result, "code"),
          code_outputs |-> collected(result, "code_output"),
          artifacts |-> artifacts_found(interactions_of(result), 1),
          interactions_count |-> Len(interactions_of(result))]

\* start_thread_without_polling, lines 296-330
start_thread_without_polling_tool(result) ==
    IF IsError(result) THEN ToolFailure(result.error, None, FALSE)
    ELSE IF ~Truthy(result.thread_id)
    THEN ToolFailure("No thread_id received from PromptQL", None, FALSE)
    ELSE [success |-> TRUE, thread_id |-> result.thread_id,
          interaction_id |-> result.interaction_id, status |-> "started", polling |-> FALSE]

\* continue_thread, lines 373-456
continue_thread_tool(thread_id, response) ==
    IF IsError(response) THEN ToolFailure(response.error, thread_id, FALSE)
    ELSE LET interactions == interactions_of(response) IN
         [success |-> TRUE, thread_id |-> thread_id,
          interaction_id |-> IF interactions = <<>> THEN None
                             ELSE interactions[Len(interactions)].interaction_id,
          answer |-> answer_text(response),
          plans |-> collected(response, "plan"),
          code_blocks |-> collected(response, "code"),
          code_outputs |-> collected(response, "code_output"),
          artifacts |-> artifacts_found(interactions, 1),
          interactions_count |-> Len(interactions)]

\* what the tool returns to the host once the client method has returned
tool_return(tool, thread_id, result) ==
    IF tool = "start_thread" THEN start_thread_tool(result)
    ELSE IF tool = "start_thread_without_polling" THEN start_thread_without_polling_tool(result)
    ELSE continue_thread_tool(thread_id, result)

----------------------------------------------------------------------------
(* The completeness predicate applied to bounded thread states *)

PriorInteractions ==
    {Interaction("i0", <<>>),
     Interaction("i0", <<[status |-> "complete", message |-> "m1", llm_call_end_timestamp |-> "t"]>>)}

FnThreadDatas ==
    {EmptyDict}
    \cup {ThreadData({}, <<>>, "t1", None, None)}
    \cup {ThreadData({"interactions"}, <<>>, "t1", None, None)}
    \cup {ThreadData({"interactions"}, Append(p, Interaction("i1", acts)), "t1", None, None) :
            p \in SeqsUpTo(PriorInteractions, MaxPrior), acts \in SeqsUpTo(Actions, MaxActions)}

InitComplete ==
    /\ fn_input \in FnThreadDatas
    /\ fn_output = Unset
    /\ sse_lines = <<>>
    /\ sse_pos = 0
    /\ thread_state = NoneRec
    /\ current_event_type = None
    /\ sse_pc = "idle"
    /\ sse_exc = "none"
    /\ sse_ret = Unset
    /\ sse_closed = FALSE
    /\ config = ConfiguredPublic
    /\ tool_name = None
    /\ tool_pc = "idle"
    /\ tool_result = Unset
    /\ call_op = None
    /\ call_caller = None
    /\ call_pc = "idle"
    /\ call_tid = None
    /\ post_resp = Unset
    /\ call_result = Unset
    /\ elapsed = 0
    /\ n_posts = 0
    /\ n_fetches = 0
    /\ n_processing = 0
    /\ last_status = Unset
    /\ last_fetch_tid = None
    /\ max_wait_time = DefaultMaxWaitTime
    /\ poll_interval = DefaultPollInterval
    /\ call_aid = None
    /\ cancel_pc = "idle"
    /\ cancel_tid = None
    /\ cancel_result = Unset
    /\ remote_processing = FALSE
    /\ remote_snapshot = EmptyDict
    /\ status_seen = "none"
    /\ environ = NoEnviron
    /\ config_file = [kind |-> "object", data |-> config]
    /\ cfg_call = Unset
    /\ client = NoneRec
    /\ sent = Unset
    /\ log = {}
    /\ writers = NoneRec
    /\ last_write = Unset

CallIsThreadComplete ==
    /\ fn_output = Unset
    /\ fn_output' = [kind |-> "returned", complete |-> _is_thread_complete(fn_input),
                     status_result |-> status_result("t1", fn_input)]
    /\ UNCHANGED fn_input
    /\ UNCHANGED <<sseVars, cfgVars, mainVars>>

NextComplete == CallIsThreadComplete

SpecComplete == InitComplete /\ [][NextComplete]_vars

\* What the claims speak of: the latest interaction, its actions, and the three
\* completion signs of one action (the timestamp member counts as set when the
\* action carries it, which is what the code tests).
LatestActions(thread_data) ==
    LET ints == interactions_of(thread_data)
    IN  IF ints = <<>> THEN <<>> ELSE ints[Len(ints)].assistant_actions

ShowsCompletion(a) ==
    \/ a.status = "complete"
    \/ a.message \notin {Absent, None}
    \/ a.llm_call_end_timestamp # Absent

LastShowsCompletion(thread_data) ==
    LET acts == LatestActions(thread_data)
    IN  acts # <<>> /\ ShowsCompletion(acts[Len(acts)])

SomeShowsCompletion(thread_data) ==
    LET acts == LatestActions(thread_data)
    IN  \E i \in 1..Len(acts) : ShowsCompletion(acts[i])

FnReturned == fn_output.kind = "returned"

C4_EmptyInteractionsNotComplete ==
    (FnReturned /\ interactions_of(fn_input) = <<>>) =>
        /\ ~fn_output.complete
        /\ (fn_output.status_result.kind = "status"
                => fn_output.status_result.status = "processing")

\* C4 witness: a non-empty thread state with an empty interactions list went
\* through get_thread_status and came out as processing.
C4_Witness ==
    /\ FnReturned
    /\ fn_input.kind = "state"
    /\ "interactions" \in fn_input.keys
    /\ fn_input.interactions = <<>>
    /\ fn_output.status_result.kind = "status"
    /\ fn_output.status_result.status = "processing"

----------------------------------------------------------------------------
(* _parse_sse_stream run line by line on the body of a 200 response *)

ActComplete == [status |-> "complete", message |-> "m1", llm_call_end_timestamp |-> Absent]
ActProcessing == [status |-> "processing", message |-> Absent, llm_call_end_timestamp |-> Absent]

StateA == TsState({"interactions"}, <<Interaction("i1", <<ActComplete>>)>>)
StateB == TsState({"interactions"}, <<Interaction("i1", <<ActProcessing>>)>>)

SsePayloads ==
    {InvalidJson, NonObjectJson,
     Payload(StateA, "tA", "titleA", "1", Absent),
     Payload(StateB, "tB", Absent, "2", "nonobject"),
     Payload(TsNull, "tA", "titleA", "1", "object"),
     Payload(TsEmpty, "tB", "titleB", "2", Absent),
     Payload(TsAbsent, "tA", "titleA", "1", "nonobject")}

SseLineAlphabet ==
    {EventLine(CTS), EventLine(IU), EventLine("ping"), BlankLine, OtherLine(StateA)}
    \cup {DataLine(p) : p \in SsePayloads}

InitSSE ==
    /\ sse_lines = <<>>
    /\ sse_pos = 0
    /\ thread_state = NoneRec
    /\ current_event_type = None
    /\ sse_pc = "reading"
    /\ sse_exc = "none"
    /\ sse_ret = Unset
    /\ sse_closed = FALSE
    /\ fn_input = EmptyDict
    /\ fn_output = Unset
    /\ config = ConfiguredPublic
    /\ tool_name = None
    /\ tool_pc = "idle"
    /\ tool_result = Unset
    /\ call_op = None
    /\ call_caller = None
    /\ call_pc = "idle"
    /\ call_tid = None
    /\ post_resp = Unset
    /\ call_result = Unset
    /\ elapsed = 0
    /\ n_posts = 0
    /\ n_fetches = 0
    /\ n_processing = 0
    /\ last_status = Unset
    /\ last_fetch_tid = None
    /\ max_wait_time = DefaultMaxWaitTime
    /\ poll_interval = DefaultPollInterval
    /\ call_aid = None
    /\ cancel_pc = "idle"
    /\ cancel_tid = None
    /\ cancel_result = Unset
    /\ remote_processing = FALSE
    /\ remote_snapshot = EmptyDict
    /\ status_seen = "none"
    /\ environ = NoEnviron
    /\ config_file = [kind |-> "object", data |-> config]
    /\ cfg_call = Unset
    /\ client = NoneRec
    /\ sent = Unset
    /\ log = {}
    /\ writers = NoneRec
    /\ last_write = Unset

\* The remote service sends one more line and iter_lines yields it: one
\* iteration of the for loop.  An exception raised by the body leaves the try
\* block: return {} after the finally clause closed the response.
SseProcessLine ==
    /\ sse_pc = "reading"
    /\ Len(sse_lines) < MaxLines
    /\ \E line \in SseLineAlphabet :
        /\ sse_lines' = Append(sse_lines, line)
        /\ sse_pos' = sse_pos + 1
        /\ LET st == sse_step([thread_state |-> thread_state,
                               current_event_type |-> current_event_type,
                               raised |-> FALSE], line)
           IN  IF st.raised
               THEN /\ sse_pc' = "returned"
                    /\ sse_exc' = "payload"
                    /\ sse_ret' = stream_failure_result(thread_state)
                    /\ sse_closed' = TRUE
                    /\ UNCHANGED <<thread_state, current_event_type>>
               ELSE /\ thread_state' = st.thread_state
                    /\ current_event_type' = st.current_event_type
                    /\ UNCHANGED <<sse_pc, sse_exc, sse_ret, sse_closed>>
    /\ UNCHANGED <<fnVars, mainVars, cfgVars>>

\* response.iter_lines raises (the connection breaks, a read times out)
SseReadError ==
    /\ sse_pc = "reading"
    /\ sse_pc' = "returned"
    /\ sse_exc' = "read"
    /\ sse_ret' = stream_failure_result(thread_state)
    /\ sse_closed' = TRUE
    /\ UNCHANGED <<sse_lines, sse_pos, thread_state, current_event_type, fnVars, mainVars, cfgVars>>

\* the remote service ends the body and the iterator is exhausted: finally
\* closes the response, line 387 returns
SseEndOfStream ==
    /\ sse_pc = "reading"
    /\ sse_pc' = "returned"
    /\ sse_ret' = or_empty(thread_state)
    /\ sse_closed' = TRUE
    /\ UNCHANGED <<sse_lines, sse_pos, thread_state, current_event_type, sse_exc, fnVars, mainVars, cfgVars>>

NextSSE == SseProcessLine \/ SseReadError \/ SseEndOfStream

SpecSSE == InitSSE /\ [][NextSSE]_vars

\* The event type in force at line i, by the framing of the stream: the type
\* named by the nearest 'event: ' line before i with no empty line in between.
RECURSIVE EventTypeAt(_, _)
EventTypeAt(lines, i) ==
    IF i <= 1 THEN None
    ELSE IF lines[i - 1].t = "event" THEN lines[i - 1].etype
    ELSE IF lines[i - 1].t = "blank" THEN None
    ELSE EventTypeAt(lines, i - 1)

\* the data lines of current-thread-state blocks that carry a non-empty thread_state
SnapshotLines(lines) ==
    {i \in 1..Len(lines) :
        /\ lines[i].t = "data"
        /\ lines[i].payload.json = "object"
        /\ lines[i].payload.thread_state.kind = "state"
        /\ EventTypeAt(lines, i) = CTS}

\* the data lines of events of any other type
IgnoredDataLines(lines) ==
    {i \in 1..Len(lines) : lines[i].t = "data" /\ EventTypeAt(lines, i) \notin {CTS}}

Max(S) == CHOOSE x \in S : \A y \in S : y <= x

RECURSIVE WithoutLines(_, _, _)
WithoutLines(lines, drop, i) ==
    IF i > Len(lines) THEN <<>>
    ELSE IF i \in drop THEN WithoutLines(lines, drop, i + 1)
    ELSE <<lines[i]>> \o WithoutLines(lines, drop, i + 1)

SseReturned == sse_pc = "returned"
\* every line of the response was delivered to the parser
SseDelivered == SseReturned /\ sse_exc # "read"

\* C6: when the response holds two or more current-thread-state blocks with a
\* non-empty thread_state, _parse_sse_stream returns the thread_state of the last
\* of them, with the thread_id, title and version of that same block.
C6_LastSnapshotWins ==
    (SseDelivered /\ Cardinality(SnapshotLines(sse_lines)) >= 2) =>
        sse_ret = enhanced_state(sse_lines[Max(SnapshotLines(sse_lines))].payload)

\* C7: events of a type other than current-thread-state are ignored: the parser
\* returns what it returns for the same response with the data of every such
\* event removed.
C7_OtherEventsIgnored ==
    SseDelivered =>
        sse_ret = parse_sse_stream(WithoutLines(sse_lines, IgnoredDataLines(sse_lines), 1))

\* C8: a 200 response whose body is a single plain JSON thread-state object (no
\* event:/data: framing) makes get_thread_status return a {status, thread_data}
\* result for that state, not an error.
C8_PlainJsonSupported ==
    (SseDelivered /\ Len(sse_lines) = 1 /\ sse_lines[1].t = "other") =>
        /\ status_result("t1", sse_ret).kind = "status"
        /\ interactions_of(status_result("t1", sse_ret).thread_data)
               = sse_lines[1].body.interactions

ParseFailure == [kind |-> "error", error |-> "Failed to parse thread status from SSE stream"]

\* what get_thread_status makes of the parser's return value
SseStatus == status_result("t1", sse_ret)

\* C32: a get_thread_status result without error has status "complete" or
\* "processing", as the completeness predicate says of the thread_data it
\* carries, and that thread_data is a non-empty snapshot; a 200 stream without
\* a current-thread-state event carrying a non-empty thread_state gives the
\* 'Failed to parse thread status' error, on which the poll loop returns.
C32_StatusResultShape ==
    SseReturned =>
        /\ ~IsError(SseStatus) =>
              /\ SseStatus.status \in {"complete", "processing"}
              /\ SseStatus.status = "complete" <=> LastShowsCompletion(SseStatus.thread_data)
              /\ SseStatus.thread_data = sse_ret
              /\ sse_ret.kind = "state"
        /\ SnapshotLines(sse_lines) = {} =>
              /\ SseStatus = ParseFailure
              /\ poll_outcome(SseStatus) = "return_error"

\* a stream with data lines and no snapshot among them was parsed to the end
C32_Witness ==
    /\ SseReturned
    /\ sse_exc = "none"
    /\ SnapshotLines(sse_lines) = {}
    /\ \E i \in 1..Len(sse_lines) : sse_lines[i].t = "data"
    /\ SseStatus = ParseFailure

\* a stream with a snapshot gave a status result
StatusFromSnapshot == SseReturned /\ ~IsError(SseStatus) /\ SseStatus.status = "processing"

\* C33: the current event type is the one named by the nearest 'event: ' line
\* with no empty line after it, none otherwise; the thread state changes only
\* on a 'data: ' line that such a current-thread-state line precedes within
\* its event block.
C33_EventTypeScoping ==
    /\ [](sse_pc = "reading" =>
            current_event_type = EventTypeAt(sse_lines, Len(sse_lines) + 1))
    /\ [][thread_state' # thread_state =>
            /\ sse_lines'[Len(sse_lines')].t = "data"
            /\ EventTypeAt(sse_lines', Len(sse_lines')) = CTS]_vars

\* a snapshot sent in the block after a current-thread-state block, without an
\* event line of its own, left the state as it was
C33_Witness ==
    /\ sse_pc = "reading"
    /\ Len(sse_lines) = 4
    /\ sse_lines[1] = EventLine(CTS)
    /\ sse_lines[2].t = "data" /\ sse_lines[2].payload.json = "invalid"
    /\ sse_lines[3] = BlankLine
    /\ sse_lines[4].t = "data"
    /\ sse_lines[4].payload.json = "object"
    /\ sse_lines[4].payload.thread_state.kind = "state"
    /\ thread_state = NoneRec

\* the snapshot of the last current-thread-state block with a non-empty
\* thread_state, or the empty state
LastSnapshot(lines) ==
    IF SnapshotLines(lines) = {} THEN EmptyDict
    ELSE enhanced_state(lines[Max(SnapshotLines(lines))].payload)

\* C34: a current-thread-state data line that is not valid JSON, lacks
\* thread_state or has a null or empty one leaves the accumulated state alone
\* and parsing continues; the state returned for a response is that of its last
\* current-thread-state block with a non-empty thread_state, or empty.
C34_SnapshotPreserved ==
    /\ SseDelivered => sse_ret = LastSnapshot(sse_lines)
    /\ (sse_pc = "returned" /\ sse_pos > 0 /\ sse_lines[sse_pos].t = "data"
            /\ EventTypeAt(sse_lines, sse_pos) = CTS) => sse_exc # "payload"

\* what the code does: the last snapshot is returned when no line made the
\* loop body raise
SnapshotPreservedUnlessRaised ==
    (SseReturned /\ sse_exc = "none") => sse_ret = LastSnapshot(sse_lines)

\* C35: when reading the stream raises, also after snapshots were parsed,
\* _parse_sse_stream returns the empty state and get_thread_status an error
\* result; the response is closed whichever way the parser is left.
C35_StreamFailureDiscards ==
    /\ SseReturned => sse_closed
    /\ (SseReturned /\ sse_exc = "read") =>
          /\ sse_ret = EmptyDict
          /\ SseStatus = ParseFailure

\* the stream broke after a snapshot had been parsed
C35_Witness ==
    /\ SseReturned
    /\ sse_exc = "read"
    /\ thread_state.kind = "state"
    /\ sse_closed

----------------------------------------------------------------------------
(* The server process: tool calls of the host, calls on a PromptQLClient, and
   the answers of the remote service *)

ActMsg(status, message) ==
    [status |-> status, message |-> message, llm_call_end_timestamp |-> Absent]

\* thread states the remote service may report
SnapNoInteractions == TsState({"interactions"}, <<>>)
SnapNoActions == TsState({"interactions"}, <<Interaction("i1", <<>>)>>)
SnapProcessing == TsState({"interactions"}, <<Interaction("i1", <<ActProcessing>>)>>)
SnapComplete == TsState({"interactions"}, <<Interaction("i1", <<ActMsg("complete", "m1")>>)>>)
SnapTwoMessages ==
    TsState({"interactions"},
            <<Interaction("i1", <<ActMsg("processing", "m1"), ActMsg("complete", "m2")>>)>>)
SnapEarlierMessage ==
    TsState({"interactions"},
            <<Interaction("i1", <<ActMsg("processing", "m1"), ActMsg("complete", None)>>)>>)
SnapEmptyMessage ==
    TsState({"interactions"}, <<Interaction("i1", <<ActMsg("processing", "")>>)>>)
SnapTwoInteractions ==
    TsState({"interactions"},
            <<Interaction("i1", <<ActMsg("complete", "m1")>>),
              Interaction("i2", <<ActMsg("complete", "m2")>>)>>)
SnapNullTimestamp ==
    TsState({"interactions"},
            <<Interaction("i1", <<[status |-> "processing", message |-> None,
                                   llm_call_end_timestamp |-> None]>>)>>)

Snapshots ==
    {SnapNoInteractions, SnapNoActions, SnapProcessing, SnapComplete, SnapTwoMessages,
     SnapEarlierMessage, SnapEmptyMessage, SnapTwoInteractions, SnapNullTimestamp}

\* a stream with one current-thread-state event carrying the snapshot
SnapshotBody(snap) ==
    <<EventLine(CTS), DataLine(Payload(snap, "t1", "title", "1", Absent)), BlankLine>>

StatusBodies ==
    {SnapshotBody(snap) : snap \in Snapshots}
    \cup {<<>>,
          <<OtherLine(SnapComplete)>>,
          SnapshotBody(SnapComplete)
              \o <<EventLine(IU), DataLine(Payload(TsAbsent, "t1", Absent, Absent, "nonobject"))>>}

StatusResponses ==
    {GetTimeout, GetConnectionError, GetException, GetHttp(404), GetHttp(500)}
    \cup {GetOk(body, FALSE) : body \in StatusBodies}
    \cup {GetOk(SnapshotBody(SnapComplete), TRUE)}

PostResponses ==
    {PostException, PostHttp(400), PostHttp(500), PostUnparsable, PostNonObject}
    \cup {PostOk(tid, iid) : tid \in {Absent, None, "", "t1", "t2"}, iid \in {Absent, "i1"}}

\* seconds a status GET may take: next to none, or all the request timeout allows
FetchDurations == {0, RequestTimeout}

ThreadTools == {"start_thread", "start_thread_without_polling", "continue_thread"}
ThreadIds == {"t1", "t2"}
ArtifactIds == {"a1", "a2"}

Init ==
    /\ config = ConfiguredPublic
    /\ tool_name = None
    /\ tool_pc = "idle"
    /\ tool_result = Unset
    /\ call_op = None
    /\ call_caller = None
    /\ call_pc = "idle"
    /\ call_tid = None
    /\ post_resp = Unset
    /\ call_result = Unset
    /\ elapsed = 0
    /\ n_posts = 0
    /\ n_fetches = 0
    /\ n_processing = 0
    /\ last_status = Unset
    /\ last_fetch_tid = None
    /\ max_wait_time = DefaultMaxWaitTime
    /\ poll_interval = DefaultPollInterval
    /\ call_aid = None
    /\ cancel_pc = "idle"
    /\ cancel_tid = None
    /\ cancel_result = Unset
    /\ remote_processing = FALSE
    /\ remote_snapshot = EmptyDict
    /\ status_seen = "none"
    /\ fn_input = EmptyDict
    /\ fn_output = Unset
    /\ sse_lines = <<>>
    /\ sse_pos = 0
    /\ thread_state = NoneRec
    /\ current_event_type = None
    /\ sse_pc = "idle"
    /\ sse_exc = "none"
    /\ sse_ret = Unset
    /\ sse_closed = FALSE
    /\ environ = NoEnviron
    /\ config_file = [kind |-> "object", data |-> config]
    /\ cfg_call = Unset
    /\ client = NoneRec
    /\ sent = Unset
    /\ log = {}
    /\ writers = NoneRec
    /\ last_write = Unset

Quiet == tool_pc # "running" /\ call_pc \in {"idle", "returned", "raised"}

\* a call starts: the per-call bookkeeping is reset
BeginCall(op, caller, pc, tid, aid) ==
    /\ call_op' = op
    /\ call_caller' = caller
    /\ call_pc' = pc
    /\ call_tid' = tid
    /\ post_resp' = Unset
    /\ call_result' = Unset
    /\ elapsed' = 0
    /\ n_posts' = 0
    /\ n_fetches' = 0
    /\ n_processing' = 0
    /\ last_status' = Unset
    /\ last_fetch_tid' = None
    /\ max_wait_time' = DefaultMaxWaitTime      \* lines 74 and 103 pass no budget
    /\ poll_interval' = DefaultPollInterval
    /\ call_aid' = aid

\* The host calls a thread tool.  The tool body runs in a try block: it first
\* builds the client; when that raises, the except clause returns the failure.
HostCallsTool ==
    /\ Quiet
    /\ \E tool \in ThreadTools, tid \in ThreadIds :
        /\ tool_name' = tool
        /\ IF _get_promptql_client(config).kind = "raised"
           THEN /\ tool_pc' = "returned"
                /\ tool_result' = tool_unexpected_error(tool, tid)
                /\ BeginCall(None, None, "idle",
                             IF tool = "continue_thread" THEN tid ELSE None, None)
           ELSE /\ tool_pc' = "running"
                /\ tool_result' = Unset
                /\ BeginCall(tool, "tool", "post",
                             IF tool = "continue_thread" THEN tid ELSE None, None)
    /\ UNCHANGED <<config, fnVars, sseVars, cfgVars, cancelVars, remoteVars>>

\* A program that holds a PromptQLClient calls one of its methods.
DirectCall ==
    /\ Quiet
    /\ \/ \E op \in ThreadTools, tid \in ThreadIds :
            BeginCall(op, "direct", "post", IF op = "continue_thread" THEN tid ELSE None,
                      None)
       \/ \E tid \in ThreadIds : BeginCall("cancel_thread", "direct", "request", tid, None)
       \/ \E tid \in ThreadIds, aid \in ArtifactIds :
            BeginCall("get_artifact", "direct", "request", tid, aid)
    /\ tool_name' = None
    /\ tool_pc' = "idle"
    /\ tool_result' = Unset
    /\ UNCHANGED <<config, fnVars, sseVars, cfgVars, cancelVars, remoteVars>>

\* the client method returns result; a tool that called it builds its own
\* result from it and returns to the host
Returns(result) ==
    /\ call_result' = result
    /\ call_pc' = "returned"
    /\ IF call_caller = "tool"
       THEN /\ tool_pc' = "returned"
            /\ tool_result' = tool_return(tool_name, call_tid, result)
       ELSE UNCHANGED <<tool_pc, tool_result>>
    /\ UNCHANGED <<config, tool_name>>

\* the client method is left by an exception; a tool that called it catches
\* the exception in its except clause
Raises(result) ==
    /\ call_result' = result
    /\ call_pc' = "raised"
    /\ IF call_caller = "tool"
       THEN /\ tool_pc' = "returned"
            /\ tool_result' = tool_unexpected_error(tool_name, call_tid)
       ELSE UNCHANGED <<tool_pc, tool_result>>
    /\ UNCHANGED <<config, tool_name>>

\* _start_thread / _continue_thread: the POST and what follows it in
\* start_thread (64-74), start_thread_without_polling (89), continue_thread (98-103)
ClientPost ==
    /\ call_pc = "post"
    /\ \E resp \in PostResponses :
        LET result == IF call_op = "continue_thread" THEN _continue_thread(resp)
                      ELSE _start_thread(resp)
        IN  /\ post_resp' = resp
            /\ n_posts' = n_posts + 1
            /\ IF retry_request(n_posts + 1, result)
               THEN UNCHANGED <<call_pc, call_tid, call_result, toolVars>>
               ELSE IF result.kind = "raised"
               THEN /\ Raises(result)
                    /\ UNCHANGED call_tid
               ELSE IF IsError(result) \/ ~polls_after_post(call_op)
               THEN /\ Returns(result)
                    /\ UNCHANGED call_tid
               ELSE /\ call_pc' = "poll"
                    /\ call_tid' = poll_thread_id(call_op, call_tid, result)
                    /\ UNCHANGED <<call_result, toolVars>>
    /\ UNCHANGED <<call_op, call_caller, elapsed, n_fetches, n_processing, last_status,
                   last_fetch_tid, max_wait_time, poll_interval, call_aid, fnVars, sseVars, cfgVars,
                   cancelVars, remoteVars>>

\* cancel_thread (149-180) and get_artifact (182-227): the one request and the
\* result made of its answer
ClientRequest ==
    /\ call_pc = "request"
    /\ \E resp \in (IF call_op = "cancel_thread" THEN CancelResponses
                     ELSE ArtifactResponses) :
        LET result == IF call_op = "cancel_thread" THEN cancel_thread(call_tid, resp)
                      ELSE get_artifact(call_tid, call_aid, resp)
            n_sent == n_posts + n_fetches + 1
        IN  /\ post_resp' = resp
            /\ n_posts' = IF call_op = "cancel_thread" THEN n_posts + 1 ELSE n_posts
            /\ n_fetches' = IF call_op = "get_artifact" THEN n_fetches + 1 ELSE n_fetches
            /\ IF retry_request(n_sent, result)
               THEN UNCHANGED <<call_pc, call_result, toolVars>>
               ELSE Returns(result)
    /\ UNCHANGED <<call_op, call_caller, call_tid, elapsed, n_processing, last_status,
                   last_fetch_tid, max_wait_time, poll_interval, call_aid, fnVars, sseVars, cfgVars,
                   cancelVars, remoteVars>>

\* _poll_thread_completion, one iteration (292-307): the budget is not used up,
\* the status is fetched, and the loop returns or goes to sleep
PollFetchWith(responses, durations) ==
    /\ call_pc = "poll"
    /\ budget_left(elapsed, max_wait_time)
    /\ \E resp \in responses, d \in durations :
        LET st == get_thread_status(call_tid, resp)
            outcome == poll_outcome(st)
        IN  /\ last_status' = st
            /\ last_fetch_tid' = call_tid
            /\ n_fetches' = n_fetches + 1
            /\ n_processing' = IF ~IsError(st) /\ st.status = "processing"
                               THEN n_processing + 1 ELSE n_processing
            /\ elapsed' = elapsed + d
            /\ IF outcome = "return_error" THEN Returns(st)
               ELSE IF outcome = "return_data"
               THEN Returns(IF call_op = "start_thread"
                            THEN poll_data_result(call_op, st.thread_data,
                                                  _start_thread(post_resp))
                            ELSE st.thread_data)
               ELSE /\ call_pc' = "sleep"
                    /\ UNCHANGED <<call_result, toolVars>>
    /\ UNCHANGED <<call_op, call_caller, call_tid, post_resp, n_posts, max_wait_time,
                   poll_interval, call_aid, fnVars, sseVars, cfgVars, cancelVars, remoteVars>>

ClientPollFetch == PollFetchWith(StatusResponses, FetchDurations)

\* time.sleep(poll_interval), line 307
ClientPollSleep ==
    /\ call_pc = "sleep"
    /\ call_pc' = "poll"
    /\ elapsed' = elapsed + poll_interval
    /\ UNCHANGED <<call_op, call_caller, call_tid, post_resp, call_result, n_posts,
                   n_fetches, n_processing, last_status, last_fetch_tid, max_wait_time,
                   poll_interval, call_aid, toolVars, fnVars, sseVars, cfgVars, cancelVars, remoteVars>>

\* the while condition fails: lines 309-310
ClientPollTimeout ==
    /\ call_pc = "poll"
    /\ ~budget_left(elapsed, max_wait_time)
    /\ Returns(PollTimeoutError)
    /\ UNCHANGED <<call_op, call_caller, call_tid, post_resp, elapsed, n_posts,
                   n_fetches, n_processing, last_status, last_fetch_tid, max_wait_time,
                   poll_interval, call_aid, fnVars, sseVars, cfgVars, cancelVars, remoteVars>>

Next ==
    \/ HostCallsTool
    \/ DirectCall
    \/ ClientPost
    \/ ClientRequest
    \/ ClientPollFetch
    \/ ClientPollSleep
    \/ ClientPollTimeout

Spec == Init /\ [][Next]_vars

----------------------------------------------------------------------------
(* Properties of the thread tools and of the blocking and non-waiting start *)

ToolReturned(tool) == tool_pc = "returned" /\ tool_name = tool
MethodReturned(op) == call_pc = "returned" /\ call_op = op

PostFailed == post_resp # Unset /\ IsError(_start_thread(post_resp))
FetchFailed == last_status # Unset /\ IsError(last_status)
BudgetExhausted == elapsed >= max_wait_time
FetchedComplete ==
    last_status # Unset /\ ~IsError(last_status) /\ last_status.status = "complete"

\* a snapshot with a single interaction whose only action is complete with a message
SingleCompleteAction(thread_data) ==
    LET ints == interactions_of(thread_data) IN
    /\ Len(ints) = 1
    /\ Len(ints[1].assistant_actions) = 1
    /\ ints[1].assistant_actions[1].status = "complete"
    /\ Truthy(Get(ints[1].assistant_actions[1].message))

\* the remote service left the scenario of the end-to-end start: it refused the
\* POST, failed a fetch, or reported completion with another shape of thread
RemoteLeftScenario ==
    \/ PostFailed
    \/ FetchFailed
    \/ FetchedComplete /\ ~SingleCompleteAction(last_status.thread_data)

\* C1: on a configured server, when the remote service accepts POST /start,
\* reports processing for n fetches and then complete with one interaction whose
\* only action is {status: complete, message: M}, the start_thread tool returns
\* success=true, answer=M, interactions_count=1 after exactly n+1 status fetches.
\* Stated over returns of the tool: a return is either that success, or the
\* remote service left the scenario, or the poll budget ran out.
C1_EndToEndStart ==
    (ToolReturned("start_thread") /\ config = ConfiguredPublic) =>
        \/ RemoteLeftScenario
        \/ BudgetExhausted
        \/ /\ tool_result.success
           /\ FetchedComplete
           /\ tool_result.answer
                = interactions_of(last_status.thread_data)[1].assistant_actions[1].message
           /\ tool_result.interactions_count = 1
           /\ n_posts = 1
           /\ n_fetches = n_processing + 1

\* the highest-index non-empty message of the latest interaction, if there is one
HasMessage(thread_data) ==
    \E i \in 1..Len(LatestActions(thread_data)) :
        Truthy(Get(LatestActions(thread_data)[i].message))

HighestMessage(thread_data) ==
    LET acts == LatestActions(thread_data)
        i == CHOOSE k \in 1..Len(acts) :
                /\ Truthy(Get(acts[k].message))
                /\ \A j \in (k + 1)..Len(acts) : ~Truthy(Get(acts[j].message))
    IN  acts[i].message

\* C5: the start_thread and continue_thread tools answer with the message of the
\* highest-index action of the latest interaction that carries a non-empty
\* message, never with an earlier action's or an earlier interaction's message.
\* Stated over returns of the two tools whose requests were all answered: the
\* tool returns an answer, and it is that message whenever the snapshot the
\* tool was given has one.
C5_AnswerIsHighestMessage ==
    ((ToolReturned("start_thread") \/ ToolReturned("continue_thread"))
        /\ ~PostFailed /\ ~FetchFailed /\ ~BudgetExhausted) =>
        /\ tool_result.success
        /\ FetchedComplete
        /\ HasMessage(last_status.thread_data) =>
               tool_result.answer = HighestMessage(last_status.thread_data)

\* The extraction of server.py 196-208 applied to the snapshots the client
\* methods return: it yields the highest-index non-empty message of the latest
\* interaction.
ExtractionOnReturnedSnapshots ==
    ((MethodReturned("start_thread") \/ MethodReturned("continue_thread"))
        /\ ~IsError(call_result) /\ HasMessage(call_result)) =>
        answer_text(call_result) = HighestMessage(call_result)

\* C9: PromptQLClient.start_thread returns a non-error result only after a
\* status fetch for the thread id of the start answer gave a snapshot that
\* satisfies the completeness predicate; while every snapshot is processing, no
\* fetch fails and the budget is not used up, it does not return.
C9_BlockingStart ==
    /\ (MethodReturned("start_thread") /\ ~IsError(call_result)) =>
        /\ n_posts = 1
        /\ n_fetches >= 1
        /\ last_fetch_tid = post_resp.thread_id
        /\ FetchedComplete
        /\ last_status.thread_id = post_resp.thread_id
        /\ LastShowsCompletion(last_status.thread_data)
        /\ call_result.thread_id = post_resp.thread_id
    /\ MethodReturned("start_thread") =>
        FetchedComplete \/ FetchFailed \/ PostFailed \/ BudgetExhausted
    /\ (call_op = "start_thread" /\ call_pc \in {"poll", "sleep"}) =>
        /\ call_result = Unset
        /\ ~FetchedComplete /\ ~FetchFailed /\ ~PostFailed

\* start_thread came back with a snapshot after the thread had been seen processing
C9_Witness ==
    /\ MethodReturned("start_thread")
    /\ ~IsError(call_result)
    /\ n_processing >= 2
    /\ n_fetches = n_processing + 1
    /\ elapsed > RequestTimeout

\* C10: start_thread_without_polling issues exactly one POST /start and no status
\* fetch, and on success returns the thread_id and interaction_id of the start
\* answer at once.  It covers the client method and the tool of that name.
C10_NonWaitingStart ==
    /\ MethodReturned("start_thread_without_polling") =>
        /\ n_posts = 1
        /\ n_fetches = 0
        /\ elapsed = 0
        /\ ~IsError(call_result) =>
            /\ call_result.thread_id = post_resp.thread_id
            /\ call_result.interaction_id = Get(post_resp.interaction_id)
    /\ ToolReturned("start_thread_without_polling") =>
        /\ n_posts = 1
        /\ n_fetches = 0
        /\ tool_result.success =>
            /\ tool_result.thread_id = post_resp.thread_id
            /\ tool_result.interaction_id = Get(post_resp.interaction_id)

\* the client method of that name, taken alone
NonWaitingStartMethod ==
    MethodReturned("start_thread_without_polling") =>
        /\ n_posts = 1
        /\ n_fetches = 0
        /\ elapsed = 0
        /\ ~IsError(call_result) =>
            /\ call_result.thread_id = post_resp.thread_id
            /\ call_result.interaction_id = Get(post_resp.interaction_id)

----------------------------------------------------------------------------
(* Properties of the completion poller as start_thread and continue_thread use it *)

PostAccepted ==
    /\ call_op \in {"start_thread", "continue_thread"}
    /\ post_resp # Unset
    /\ IF call_op = "start_thread" THEN _start_thread(post_resp).kind = "started"
       ELSE _continue_thread(post_resp).kind = "started"

\* C11: in _poll_thread_completion the first status fetch that gives an error
\* result ends the loop: that result is returned unchanged and no further
\* status fetch is issued, whatever is left of the budget.
C11_FetchErrorEndsPoll ==
    FetchFailed =>
        /\ call_pc = "returned"
        /\ call_result = last_status
        /\ n_fetches = n_processing + 1

\* a fetch failed after the thread had been seen processing, budget left
C11_Witness ==
    /\ FetchFailed
    /\ call_pc = "returned"
    /\ n_processing >= 2
    /\ elapsed + RequestTimeout < max_wait_time

\* C12: with the default budget of 120 and interval of 2, when every status
\* fetch reports processing until the budget is used up the poll returns the
\* processing-timeout error, and that error differs from every error result of
\* a failed status fetch.
C12_TimeoutIsDistinct ==
    /\ call_pc \in {"poll", "sleep"} => max_wait_time = 120 /\ poll_interval = 2
    /\ (PostAccepted /\ call_pc = "returned" /\ n_fetches = n_processing) =>
        /\ BudgetExhausted
        /\ call_result = PollTimeoutError
    /\ (call_pc = "returned" /\ call_result = PollTimeoutError) =>
        /\ BudgetExhausted
        /\ ~FetchFailed
        /\ n_fetches = n_processing
    /\ FetchFailed =>
        /\ last_status # PollTimeoutError
        /\ last_status.error # PollTimeoutError.error

\* the budget ran out on a thread that every fetch reported as processing
C12_Witness ==
    /\ call_pc = "returned"
    /\ call_result = PollTimeoutError
    /\ n_fetches = n_processing
    /\ n_fetches >= 2

\* C14: measured on the poller's own clock, _poll_thread_completion returns no
\* later than max_wait_time after it started, whatever time a status fetch
\* takes (up to the request timeout) and whatever the poll interval.
C14_ReturnsWithinBudget ==
    (PostAccepted /\ call_pc = "returned") => elapsed <= max_wait_time

\* the failures of POST /start that the thread identifier check and the parser find
ProtocolErrors ==
    {"No thread_id received from API", "Failed to parse thread start response"}

\* C20: start_thread returns a connection-error result when the POST fails in
\* transport, an API-error result with the HTTP status and body on a non-200
\* answer, and a protocol-error result when a 200 body lacks a thread
\* identifier or does not parse; no status fetch is issued in these cases and
\* the three kinds of result differ.
C20_StartFailureModes ==
    (call_op = "start_thread" /\ call_pc \in {"returned", "raised"}) =>
        /\ post_resp.kind = "exception" =>
            /\ call_pc = "returned"
            /\ call_result = Err("Connection error")
            /\ n_fetches = 0
        /\ post_resp.kind = "http" =>
            /\ call_pc = "returned"
            /\ call_result = ApiErr("API error", post_resp.code)
            /\ call_result.details
            /\ n_fetches = 0
        /\ (\/ post_resp.kind \in {"unparsable", "nonobject"}
            \/ post_resp.kind = "ok" /\ ~Truthy(Get(post_resp.thread_id))) =>
            /\ call_pc = "returned"
            /\ IsError(call_result)
            /\ call_result.error \in ProtocolErrors
            /\ n_fetches = 0
        /\ "Connection error" \notin ProtocolErrors \cup {"API error"}
        /\ "API error" \notin ProtocolErrors

\* the same without the 200 answers whose body is JSON but no object
StartFailureModesOfObjects ==
    (call_op = "start_thread" /\ call_pc = "returned") =>
        /\ post_resp.kind = "exception" =>
            call_result = Err("Connection error") /\ n_fetches = 0
        /\ post_resp.kind = "http" =>
            call_result = ApiErr("API error", post_resp.code) /\ n_fetches = 0
        /\ (\/ post_resp.kind = "unparsable"
            \/ post_resp.kind = "ok" /\ ~Truthy(Get(post_resp.thread_id))) =>
            /\ IsError(call_result)
            /\ call_result.error \in ProtocolErrors
            /\ n_fetches = 0

----------------------------------------------------------------------------
(* Properties of continue_thread, of the requests a call issues and of the
   failure results of the tools *)

ContinuePostAnswered == call_op = "continue_thread" /\ post_resp # Unset

\* the failures of POST /continue that a check of the body would find
ContinueProtocolErrors ==
    {"No thread_id received from API", "Failed to parse thread continue response"}

\* C21: continue_thread has the failure modes of start_thread: a
\* connection-error result when the POST fails in transport, an API-error
\* result with status and body on a non-200 answer, and a protocol-error result
\* when the 200 body lacks a thread identifier; in each case it returns that
\* error and issues no status fetch.
C21_ContinueFailureModes ==
    ContinuePostAnswered =>
        /\ post_resp.kind = "exception" =>
            /\ call_pc = "returned"
            /\ call_result = Err("Connection error")
            /\ n_fetches = 0
        /\ post_resp.kind = "http" =>
            /\ call_pc = "returned"
            /\ call_result = ApiErr("API error", post_resp.code)
            /\ n_fetches = 0
        /\ (\/ post_resp.kind \in {"unparsable", "nonobject"}
            \/ post_resp.kind = "ok" /\ ~Truthy(Get(post_resp.thread_id))) =>
            /\ call_pc = "returned"
            /\ IsError(call_result)
            /\ call_result.error \in ContinueProtocolErrors
            /\ n_fetches = 0

\* what does hold: the transport failure, the non-200 answer and the body that
\* does not parse end continue_thread with their error and without a fetch
ContinueFailureModesChecked ==
    ContinuePostAnswered =>
        /\ post_resp.kind = "exception" =>
            call_pc = "returned" /\ call_result = Err("Connection error") /\ n_fetches = 0
        /\ post_resp.kind = "http" =>
            /\ call_pc = "returned"
            /\ call_result = ApiErr("API error", post_resp.code)
            /\ n_fetches = 0
        /\ post_resp.kind = "unparsable" =>
            /\ call_pc = "returned"
            /\ call_result = Err("Failed to parse thread continue response")
            /\ n_fetches = 0

\* what the body of the tool named like the returned client method makes of
\* the method's result
ToolBodyResult == tool_return(call_op, call_tid, call_result)

AnsweringMethodReturned == MethodReturned("start_thread") \/ MethodReturned("continue_thread")

\* the success result r built from snapshot thread_data reports at least one
\* interaction, the latest with an action, and a message of it or the placeholder
SuccessShape(r, thread_data) ==
    /\ r.interactions_count >= 1
    /\ r.interactions_count = Len(interactions_of(thread_data))
    /\ LatestActions(thread_data) # <<>>
    /\ r.answer = NoAnswer <=> ~HasMessage(thread_data)
    /\ r.answer # NoAnswer =>
          \E i \in 1..Len(LatestActions(thread_data)) :
              /\ LatestActions(thread_data)[i].message = r.answer
              /\ Truthy(Get(r.answer))

\* C36: a success result of the start_thread or continue_thread tool reports
\* interactions_count >= 1 for a thread whose latest interaction has an
\* assistant action; its answer is a non-empty message of an action of that
\* interaction, or the placeholder exactly when no such action has one.
C36_SuccessAndPlaceholder ==
    /\ (AnsweringMethodReturned /\ ToolBodyResult.success) =>
          SuccessShape(ToolBodyResult, call_result)
    /\ ((ToolReturned("start_thread") \/ ToolReturned("continue_thread"))
            /\ tool_result.success) =>
          SuccessShape(tool_result, call_result)

\* the thread was judged complete through an empty message, and the result of
\* the tool body carries the placeholder
C36_Witness ==
    /\ MethodReturned("start_thread")
    /\ ToolBodyResult.success
    /\ ToolBodyResult.answer = NoAnswer
    /\ LatestActions(call_result)[1].message = ""

\* a success result with a message found before the last action
AnswerFromEarlierAction ==
    /\ MethodReturned("continue_thread")
    /\ ToolBodyResult.success
    /\ ToolBodyResult.answer = "m1"
    /\ Len(LatestActions(call_result)) = 2

\* _get_promptql_client, lines 24-31: the three values and a valid mode
Configured(cfg) ==
    /\ Truthy(Get(cfg.api_key))
    /\ Truthy(Get(cfg.playground_url))
    /\ Truthy(Get(cfg.auth_token))
    /\ Get(cfg.auth_mode) \in {None, "public", "private"}

\* C37: a thread tool called while a value is missing or the auth mode is
\* not to be had returns success=false without any request to the remote
\* service; called with the three values present and a valid mode it issues
\* its request.
C37_NoRequestWhileUnconfigured ==
    (tool_pc = "returned" /\ tool_name \in ThreadTools) =>
        /\ ~Configured(config) =>
              ~tool_result.success /\ n_posts = 0 /\ n_fetches = 0
        /\ Configured(config) => n_posts + n_fetches >= 1

\* what the code does: no tool call ever leads to a request
ToolsNeverRequest ==
    (tool_pc = "returned" /\ tool_name \in ThreadTools) =>
        ~tool_result.success /\ n_posts = 0 /\ n_fetches = 0

\* the 200 answer to POST /continue names another thread than the caller did,
\* or none
ContinueMismatch ==
    /\ ContinuePostAnswered
    /\ post_resp.kind = "ok"
    /\ Get(post_resp.thread_id) # call_tid

\* C22: when the 200 answer to POST /continue carries a thread_id other than
\* the one the caller passed, continue_thread does not fail: it goes on to
\* poll, every status fetch of the call is for the caller's thread_id and never
\* for the returned one, and the tool result reports the caller's thread_id.
C22_MismatchNotFatal ==
    /\ [](ContinueMismatch =>
            /\ n_posts = 1
            /\ call_pc \in {"poll", "sleep", "returned"}
            /\ n_fetches > 0 =>
                /\ last_fetch_tid = call_tid
                /\ last_fetch_tid # Get(post_resp.thread_id)
            /\ call_pc = "returned" =>
                /\ n_fetches >= 1
                /\ FetchedComplete \/ FetchFailed \/ BudgetExhausted
                /\ continue_thread_tool(call_tid, call_result).thread_id = call_tid
                /\ call_caller = "tool" => tool_result.thread_id = call_tid)
    /\ [](ToolReturned("continue_thread") => tool_result.thread_id = call_tid)
    /\ [][call_op = "continue_thread" /\ call_pc \in {"post", "poll", "sleep"}
            => call_tid' = call_tid]_vars

\* continue_thread on t1 came back with a snapshot although the answer to its
\* POST named t2
C22_Witness ==
    /\ ContinueMismatch
    /\ call_tid = "t1"
    /\ post_resp.thread_id = "t2"
    /\ call_pc = "returned"
    /\ ~IsError(call_result)
    /\ n_processing >= 1
    /\ last_fetch_tid = "t1"

PollingOps == {"start_thread", "continue_thread", "_poll_thread_completion"}

\* the request of the call in progress was answered with a failure
RequestFailed ==
    /\ post_resp # Unset
    /\ \/ post_resp.kind \in {"exception", "http", "unparsable", "nonobject"}
       \/ call_op \in {"start_thread", "start_thread_without_polling"}
            /\ post_resp.kind = "ok" /\ ~Truthy(Get(post_resp.thread_id))

\* C23: within one client call POST /start, POST /continue, POST /cancel and
\* the artifact GET are issued at most once each, and a request that failed is
\* not issued again; only the status GET of the poll loop is repeated, and only
\* after a fetch that succeeded and reported processing.
C23_NoRetries ==
    /\ n_posts <= 1
    /\ call_op = "get_artifact" => n_posts = 0 /\ n_fetches <= 1
    /\ call_op \in {"cancel_thread", "start_thread_without_polling"} => n_fetches = 0
    /\ call_op \in {"cancel_thread", "get_artifact"} /\ post_resp # Unset =>
        call_pc = "returned" /\ n_posts + n_fetches = 1
    /\ RequestFailed =>
        /\ call_pc \in {"returned", "raised"}
        /\ n_posts + n_fetches = 1
    /\ call_op \in PollingOps =>
        /\ n_fetches <= n_processing + 1
        /\ call_pc \in {"poll", "sleep"} => n_fetches = n_processing
        /\ FetchFailed => call_pc = "returned" /\ n_fetches = n_processing + 1
        /\ n_fetches > 0 => n_posts = 1 /\ ~RequestFailed

\* one POST, then a third fetch that failed after two that reported processing
C23_Witness ==
    /\ call_op = "continue_thread"
    /\ call_pc = "returned"
    /\ n_posts = 1
    /\ n_processing = 2
    /\ n_fetches = 3
    /\ FetchFailed

\* C25: when a tool catches an exception it did not expect, the result it
\* returns to the host carries a generic error message only (success false,
\* error); the stack trace goes to the local log and is not part of the result.
C25_UnexpectedErrorsStayLocal ==
    (tool_pc = "returned" /\ ~tool_result.success
        /\ tool_result.error = "Unexpected error") =>
        ~tool_result.error_trace

----------------------------------------------------------------------------
(* _poll_thread_completion called with budgets and intervals of the caller's
   choice, while another caller cancels the thread *)

MaxBudget == 5         \* largest max_wait_time tried
MaxInterval == 3       \* largest poll_interval tried

PollBudgets == (0 - 1)..MaxBudget
PollIntervals == 1..MaxInterval

PollStatusResponses ==
    {GetTimeout, GetHttp(500),
     GetOk(SnapshotBody(SnapProcessing), FALSE),
     GetOk(SnapshotBody(SnapNoInteractions), FALSE),
     GetOk(SnapshotBody(SnapComplete), FALSE),
     GetOk(<<>>, FALSE)}

PollFetchDurations == {0, 1}

InitPoll ==
    /\ config = ConfiguredPublic
    /\ tool_name = None
    /\ tool_pc = "idle"
    /\ tool_result = Unset
    /\ call_op = None
    /\ call_caller = None
    /\ call_pc = "idle"
    /\ call_tid = None
    /\ post_resp = Unset
    /\ call_result = Unset
    /\ elapsed = 0
    /\ n_posts = 0
    /\ n_fetches = 0
    /\ n_processing = 0
    /\ last_status = Unset
    /\ last_fetch_tid = None
    /\ max_wait_time = DefaultMaxWaitTime
    /\ poll_interval = DefaultPollInterval
    /\ call_aid = None
    /\ cancel_pc = "idle"
    /\ cancel_tid = None
    /\ cancel_result = Unset
    /\ remote_processing = FALSE
    /\ remote_snapshot = EmptyDict
    /\ status_seen = "none"
    /\ fn_input = EmptyDict
    /\ fn_output = Unset
    /\ sse_lines = <<>>
    /\ sse_pos = 0
    /\ thread_state = NoneRec
    /\ current_event_type = None
    /\ sse_pc = "idle"
    /\ sse_exc = "none"
    /\ sse_ret = Unset
    /\ sse_closed = FALSE
    /\ environ = NoEnviron
    /\ config_file = [kind |-> "object", data |-> config]
    /\ cfg_call = Unset
    /\ client = NoneRec
    /\ sent = Unset
    /\ log = {}
    /\ writers = NoneRec
    /\ last_write = Unset

\* _poll_thread_completion(thread_id, max_wait_time, poll_interval) is entered:
\* start_time = time.time(), line 290
CallPoll ==
    /\ call_pc \in {"idle", "returned"}
    /\ cancel_pc \in {"idle", "returned"}
    /\ \E tid \in ThreadIds, budget \in PollBudgets, interval \in PollIntervals :
        /\ call_op' = "_poll_thread_completion"
        /\ call_caller' = "direct"
        /\ call_pc' = "poll"
        /\ call_tid' = tid
        /\ max_wait_time' = budget
        /\ poll_interval' = interval
    /\ call_aid' = None
    /\ post_resp' = Unset
    /\ call_result' = Unset
    /\ elapsed' = 0
    /\ n_posts' = 0
    /\ n_fetches' = 0
    /\ n_processing' = 0
    /\ last_status' = Unset
    /\ last_fetch_tid' = None
    /\ cancel_pc' = "idle"
    /\ cancel_tid' = None
    /\ cancel_result' = Unset
    /\ UNCHANGED <<toolVars, remoteVars, fnVars, sseVars, cfgVars>>

PollFetch == PollFetchWith(PollStatusResponses, PollFetchDurations)

\* another caller enters cancel_thread(thread_id) while the poll is in flight
\* and sends the POST
CancelCall ==
    /\ call_pc \in {"poll", "sleep"}
    /\ cancel_pc = "idle"
    /\ cancel_pc' = "post"
    /\ \E tid \in ThreadIds : cancel_tid' = tid
    /\ UNCHANGED <<cancel_result, toolVars, callVars, remoteVars, fnVars, sseVars, cfgVars>>

\* the POST is answered and cancel_thread returns
CancelAnswer ==
    /\ cancel_pc = "post"
    /\ cancel_pc' = "returned"
    /\ \E resp \in CancelResponses : cancel_result' = cancel_thread(cancel_tid, resp)
    /\ call_pc' = poll_pc_after_cancel(call_pc)
    /\ UNCHANGED <<cancel_tid, toolVars, call_op, call_caller, call_tid, post_resp,
                   call_result, elapsed, n_posts, n_fetches, n_processing, last_status,
                   last_fetch_tid, max_wait_time, poll_interval, call_aid, remoteVars, fnVars,
                   sseVars, cfgVars>>

NextPoll ==
    \/ CallPoll
    \/ PollFetch
    \/ ClientPollSleep
    \/ ClientPollTimeout
    \/ CancelCall
    \/ CancelAnswer

\* every status fetch returns and every sleep ends
SpecPoll ==
    /\ InitPoll
    /\ [][NextPoll]_vars
    /\ WF_vars(PollFetch)
    /\ WF_vars(ClientPollSleep)
    /\ WF_vars(ClientPollTimeout)

PollInFlight == call_pc \in {"poll", "sleep"}
PollReturned == call_op = "_poll_thread_completion" /\ call_pc = "returned"

ReturnedSnapshot == FetchedComplete /\ call_result = last_status.thread_data
ReturnedFetchError == FetchFailed /\ call_result = last_status
ReturnedTimeout == call_result = PollTimeoutError /\ BudgetExhausted /\ n_fetches = n_processing

Count(b) == IF b THEN 1 ELSE 0

PollEndsInOneWay ==
    PollReturned =>
        Count(ReturnedSnapshot) + Count(ReturnedFetchError) + Count(ReturnedTimeout) = 1

\* C13 as stated: the poll ends in exactly one of the three ways, and it issues
\* at least one and at most max_wait_time / poll_interval status fetches when
\* max_wait_time > 0, none when max_wait_time <= 0.
C13_FetchesAtMostQuotient ==
    /\ PollEndsInOneWay
    /\ call_op = "_poll_thread_completion" =>
        IF max_wait_time > 0
        THEN /\ PollReturned => n_fetches >= 1
             /\ n_fetches * poll_interval <= max_wait_time
        ELSE n_fetches = 0

\* C13, amended: whenever every status fetch returns, _poll_thread_completion
\* terminates, in exactly one of three ways (a complete snapshot, a status-fetch
\* error, the timeout error); with max_wait_time > 0 it issues at least one
\* status fetch and at most max_wait_time / poll_interval rounded up, with
\* max_wait_time <= 0 none.
C13_PollTerminates ==
    /\ [](PollEndsInOneWay)
    /\ [](call_op = "_poll_thread_completion" =>
            IF max_wait_time > 0
            THEN /\ PollReturned => n_fetches >= 1
                 /\ (n_fetches - 1) * poll_interval < max_wait_time
            ELSE n_fetches = 0)
    /\ PollInFlight ~> PollReturned

\* the budget ran out after more fetches than the quotient allows
C13_Witness ==
    /\ PollReturned
    /\ ReturnedTimeout
    /\ max_wait_time > 0
    /\ n_fetches >= 3
    /\ n_fetches * poll_interval > max_wait_time

CancelStep ==
    \/ cancel_pc = "idle" /\ cancel_pc' = "post"
    \/ cancel_pc = "post" /\ cancel_pc' = "returned"

\* C17: a cancel_thread call that runs while _poll_thread_completion is in
\* flight on the same thread changes nothing of the poller's state and does not
\* make it return; the poll still ends only by a later fetch that reports
\* complete, by a status-fetch error or by the timeout, so a cancelled thread
\* that is reported as not complete until the budget is used up ends the poll
\* with the timeout error.
C17_CancelLeavesPollAlone ==
    /\ [][CancelStep => UNCHANGED callVars]_vars
    /\ [](PollEndsInOneWay)
    /\ []((PollReturned /\ cancel_pc = "returned" /\ n_fetches = n_processing) =>
            /\ BudgetExhausted
            /\ call_result = PollTimeoutError)

\* the thread was cancelled with success while polled, and the poll timed out
C17_Witness ==
    /\ PollReturned
    /\ cancel_pc = "returned"
    /\ cancel_tid = call_tid
    /\ cancel_result.kind = "cancelled"
    /\ call_result = PollTimeoutError
    /\ n_processing >= 2

----------------------------------------------------------------------------
(* cancel_thread and get_artifact, client methods and tools, against a remote
   service that holds thread t1 and its artifact a1 *)

\* server.py, cancel_thread 644-668 and its except clause 670-676
cancel_thread_tool(thread_id, result) ==
    IF IsError(result)
    THEN [success |-> FALSE, error |-> result.error, thread_id |-> thread_id]
    ELSE [success |-> TRUE, thread_id |-> thread_id, action |-> "cancelled"]

cancel_thread_tool_error(thread_id) ==
    [success |-> FALSE, error |-> "Unexpected error", thread_id |-> thread_id]

\* server.py, get_artifact 695-723 and its except clause 724-731
get_artifact_tool(thread_id, artifact_id, response_data) ==
    IF IsError(response_data)
    THEN [success |-> FALSE, error |-> response_data.error, thread_id |-> thread_id,
          artifact_id |-> artifact_id]
    ELSE [success |-> TRUE, thread_id |-> thread_id, artifact_id |-> artifact_id,
          content_type |-> response_data.content_type, size |-> response_data.size,
          data |-> response_data.data]

get_artifact_tool_error(thread_id, artifact_id) ==
    [success |-> FALSE, error |-> "Get artifact error", thread_id |-> thread_id,
     artifact_id |-> artifact_id]

\* the error messages of the model that contain "not found"
ContainsNotFound(error) == error \in {"Artifact not found"}

\* The remote service (section 6 of the protocol): thread t1 exists, t2 does
\* not; artifact a1 of t1 exists.  While the service processes an interaction
\* the last assistant action it reports is not yet of status complete; it may
\* already carry a message or the end timestamp of the LLM call.
SnapPartialMessage ==
    TsState({"interactions"}, <<Interaction("i1", <<ActMsg("processing", "m1")>>)>>)

ProcessingSnapshots ==
    {SnapNoActions, SnapProcessing, SnapPartialMessage, SnapNullTimestamp}
FinishedSnapshots == {SnapComplete, SnapTwoMessages, SnapTwoInteractions}

RemoteKnowsArtifact(tid, aid) == tid = "t1" /\ aid = "a1"

InitThread ==
    /\ remote_processing = TRUE
    /\ remote_snapshot = SnapNoActions
    /\ status_seen = "none"
    /\ config = ConfiguredPublic
    /\ tool_name = None
    /\ tool_pc = "idle"
    /\ tool_result = Unset
    /\ call_op = None
    /\ call_caller = None
    /\ call_pc = "idle"
    /\ call_tid = None
    /\ call_aid = None
    /\ post_resp = Unset
    /\ call_result = Unset
    /\ elapsed = 0
    /\ n_posts = 0
    /\ n_fetches = 0
    /\ n_processing = 0
    /\ last_status = Unset
    /\ last_fetch_tid = None
    /\ max_wait_time = DefaultMaxWaitTime
    /\ poll_interval = DefaultPollInterval
    /\ cancel_pc = "idle"
    /\ cancel_tid = None
    /\ cancel_result = Unset
    /\ fn_input = EmptyDict
    /\ fn_output = Unset
    /\ sse_lines = <<>>
    /\ sse_pos = 0
    /\ thread_state = NoneRec
    /\ current_event_type = None
    /\ sse_pc = "idle"
    /\ sse_exc = "none"
    /\ sse_ret = Unset
    /\ sse_closed = FALSE
    /\ environ = NoEnviron
    /\ config_file = [kind |-> "object", data |-> config]
    /\ cfg_call = Unset
    /\ client = NoneRec
    /\ sent = Unset
    /\ log = {}
    /\ writers = NoneRec
    /\ last_write = Unset

unusedByThread == <<elapsed, n_posts, n_fetches, n_processing, last_fetch_tid,
                    max_wait_time, poll_interval, cancelVars, fnVars, sseVars, cfgVars>>

\* the service goes on with the interaction, or finishes it
RemoteProgress ==
    /\ remote_processing
    /\ \/ /\ remote_snapshot' \in ProcessingSnapshots
          /\ UNCHANGED remote_processing
       \/ /\ remote_snapshot' \in FinishedSnapshots
          /\ remote_processing' = FALSE
    /\ UNCHANGED <<status_seen, toolVars, call_op, call_caller, call_pc, call_tid, call_aid,
                   post_resp, call_result, last_status, unusedByThread>>

\* the tool returns what it makes of the client's result
OpToolReturn(tool, thread_id, artifact_id, result) ==
    IF tool = "cancel_thread" THEN cancel_thread_tool(thread_id, result)
    ELSE get_artifact_tool(thread_id, artifact_id, result)

\* the call ends: a client method called directly returns result; a tool
\* (server.py 644-645, 696-697) first builds the client, and its except clause
\* answers when that raises
OpEnds(tool, op, tid, aid, resp, result) ==
    /\ call_op' = op
    /\ call_tid' = tid
    /\ call_aid' = aid
    /\ IF tool = None
       THEN /\ call_caller' = "direct"
            /\ call_pc' = "returned"
            /\ post_resp' = resp
            /\ call_result' = result
            /\ tool_name' = None
            /\ tool_pc' = "idle"
            /\ tool_result' = Unset
       ELSE /\ tool_name' = tool
            /\ tool_pc' = "returned"
            /\ IF _get_promptql_client(config).kind = "raised"
               THEN /\ tool_result' = IF tool = "cancel_thread"
                                      THEN cancel_thread_tool_error(tid)
                                      ELSE get_artifact_tool_error(tid, aid)
                    /\ call_caller' = None
                    /\ call_pc' = "idle"
                    /\ post_resp' = Unset
                    /\ call_result' = Unset
               ELSE /\ tool_result' = OpToolReturn(tool, tid, aid, result)
                    /\ call_caller' = "tool"
                    /\ call_pc' = "returned"
                    /\ post_resp' = resp
                    /\ call_result' = result
    /\ UNCHANGED config

\* a request reaches the service only when the client exists
Requests(tool) == tool = None \/ _get_promptql_client(config).kind # "raised"

\* get_thread_status(thread_id) called on the client, lines 105-147
StatusCall ==
    /\ \E resp \in {GetOk(SnapshotBody(remote_snapshot), FALSE), GetTimeout, GetHttp(500)} :
        LET result == get_thread_status("t1", resp) IN
        /\ OpEnds(None, "get_thread_status", "t1", None, resp, result)
        /\ last_status' = result
        /\ status_seen' = IF IsError(result) THEN "error" ELSE result.status
    /\ UNCHANGED <<remote_processing, remote_snapshot, unusedByThread>>

\* _continue_thread(thread_id, ...) posts a new message, lines 432-486: the
\* service starts on a new interaction
ContinuePosted ==
    /\ \E resp \in {PostOk("t1", "i2"), PostException, PostHttp(500)} :
        /\ OpEnds(None, "_continue_thread", "t1", None, resp, _continue_thread(resp))
        /\ IF resp.kind = "ok"
           THEN /\ remote_processing' = TRUE
                /\ remote_snapshot' = SnapNoActions
                /\ status_seen' = "none"
           ELSE UNCHANGED remoteVars
    /\ UNCHANGED <<last_status, unusedByThread>>

\* what the service may answer to POST /<thread_id>/cancel
CancelAnswers(tid) ==
    {CancelException, CancelHttp(500)}
    \cup (IF tid # "t1" THEN {CancelHttp(404)}
          ELSE IF remote_processing THEN {CancelHttp(200)} ELSE {CancelHttp(400)})

\* cancel_thread(thread_id), client method 149-180 or tool 628-676
CancelThreadCall ==
    /\ \E tool \in {None, "cancel_thread"}, tid \in ThreadIds :
        \E resp \in CancelAnswers(tid) :
            /\ OpEnds(tool, "cancel_thread", tid, None, resp, cancel_thread(tid, resp))
            /\ remote_processing' = IF Requests(tool) /\ resp = CancelHttp(200) THEN FALSE
                                    ELSE remote_processing
    /\ UNCHANGED <<remote_snapshot, status_seen, last_status, unusedByThread>>

\* what the service may answer to GET /<thread_id>/artifacts/<artifact_id>/data
ArtifactAnswers(tid, aid) ==
    {ArtifactException, ArtifactHttp(500)}
    \cup (IF RemoteKnowsArtifact(tid, aid)
          THEN {ArtifactOk(body, ctype) : body \in ArtifactBodies, ctype \in ContentTypes}
          ELSE {ArtifactHttp(404)})

\* get_artifact(thread_id, artifact_id), client method 182-227 or tool 678-731
GetArtifactCall ==
    /\ \E tool \in {None, "get_artifact"}, tid \in ThreadIds, aid \in ArtifactIds :
        \E resp \in ArtifactAnswers(tid, aid) :
            OpEnds(tool, "get_artifact", tid, aid, resp, get_artifact(tid, aid, resp))
    /\ UNCHANGED <<remoteVars, last_status, unusedByThread>>

NextThread ==
    \/ RemoteProgress
    \/ StatusCall
    \/ ContinuePosted
    \/ CancelThreadCall
    \/ GetArtifactCall

SpecThread == InitThread /\ [][NextThread]_vars

(***************************************************************************)
(* Properties of cancel_thread and get_artifact                            *)
(***************************************************************************)
CancelReturned == call_op = "cancel_thread" /\ call_pc = "returned"
ArtifactReturned == call_op = "get_artifact" /\ call_pc = "returned"

\* C15: when the most recent get_thread_status of a thread reported
\* "complete" and the thread was not continued since, cancel_thread on that
\* thread returns a failure result.
C15_CancelAfterCompleteFails ==
    (CancelReturned /\ call_tid = "t1" /\ status_seen = "complete")
        => IsError(call_result)

\* C16: cancel_thread returns the success result (status cancelled) exactly
\* when the service answers 200; it returns the "Cannot cancel thread" failure
\* exactly when the service answers 400, so that failure differs from the one
\* for any other status and from the one for a transport exception; every case
\* returns a result.
C16_CancelOutcomeMapping ==
    CancelReturned =>
        /\ call_result.kind \in {"cancelled", "error"}
        /\ (call_result.kind = "cancelled") <=> (post_resp = CancelHttp(200))
        /\ call_result.kind = "cancelled"
            => call_result.status = "cancelled" /\ call_result.thread_id = call_tid
        /\ (IsError(call_result) /\ call_result.error = "Cannot cancel thread")
            <=> (post_resp = CancelHttp(400))
        /\ IsError(call_result) /\ call_result.error # "Cannot cancel thread"
            => call_result.error = "Cancel error"
               /\ (call_result.details <=> post_resp.kind = "http")

C16_Witness ==
    /\ CancelReturned
    /\ call_caller = "direct"
    /\ post_resp = CancelHttp(400)
    /\ ~remote_processing
    /\ call_result.error = "Cannot cancel thread"

\* C18: get_artifact for an artifact the service does not know returns a
\* failure whose error contains "not found"; the tool returns success false
\* with such an error.
C18_UnknownArtifactNotFound ==
    /\ (ArtifactReturned /\ post_resp = ArtifactHttp(404))
        => IsError(call_result) /\ ContainsNotFound(call_result.error)
    /\ (ToolReturned("get_artifact") /\ ~RemoteKnowsArtifact(call_tid, call_aid))
        => ~tool_result.success /\ ContainsNotFound(tool_result.error)

\* what does hold: the client method alone reports a 404 as "Artifact not found"
UnknownArtifactOnClient ==
    (ArtifactReturned /\ post_resp = ArtifactHttp(404))
        => call_result = ArtifactNotFound

\* C19: on a 200 answer get_artifact returns content_type, size and data; data
\* is the parsed value when the body is valid JSON and the body text
\* otherwise; size is the number of bytes of the body in both cases; a body
\* that is no JSON gives no error result.
C19_ArtifactDecoding ==
    (ArtifactReturned /\ post_resp.kind = "ok") =>
        /\ call_result.kind = "artifact"
        /\ call_result.content_type # Absent
        /\ call_result.size = post_resp.body.bytes
        /\ call_result.data = IF post_resp.body.valid THEN post_resp.body.value
                              ELSE post_resp.body.text

C19_Witness ==
    /\ ArtifactReturned
    /\ call_caller = "direct"
    /\ post_resp.kind = "ok"
    /\ ~post_resp.body.valid
    /\ post_resp.body.bytes # post_resp.body.chars
    /\ call_result.kind = "artifact"
    /\ call_result.data = post_resp.body.text

----------------------------------------------------------------------------
(* The result the start_thread and continue_thread tools build from the thread
   snapshot their client call returned (server.py 190-256 and 386-456) *)

MaxNormActions == 2     \* actions per interaction
MaxNormInteractions == 2

\* actions with and without plan, code, code_output and artifact_identifiers
ActPlanCode ==
    [status |-> "processing", message |-> None, llm_call_end_timestamp |-> Absent,
     plan |-> "p1", code |-> "c1", code_output |-> "o1", artifact_identifiers |-> <<"a1">>]
ActEmptyPlan ==
    [status |-> "complete", message |-> "m2", llm_call_end_timestamp |-> Absent,
     plan |-> "", code |-> None, code_output |-> Absent,
     artifact_identifiers |-> <<"a1", "a2">>]
ActOutputOnly ==
    [status |-> "complete", message |-> None, llm_call_end_timestamp |-> "t",
     plan |-> "p3", code |-> Absent, code_output |-> "o3", artifact_identifiers |-> <<>>]

NormActions == {ActPlanCode, ActEmptyPlan, ActOutputOnly, ActMsg("complete", "m1")}

\* interactions i1, i2, ... with these lists of actions
NumberedInteractions(lists) ==
    [k \in 1..Len(lists) |->
        Interaction(IF k = 1 THEN "i1" ELSE IF k = 2 THEN "i2" ELSE "i3", lists[k])]

\* a snapshot of up to MaxNormInteractions interactions with these lists of actions
NormSnapshot(lists) ==
    ThreadData({"interactions"}, NumberedInteractions(lists), "t1", "title", "1")

NormTools == {"start_thread", "continue_thread"}

InitNormalize ==
    /\ \E lists \in SeqsUpTo(SeqsUpTo(NormActions, MaxNormActions), MaxNormInteractions) :
           fn_input = NormSnapshot(lists)
    /\ fn_output = Unset
    /\ sse_lines = <<>>
    /\ sse_pos = 0
    /\ thread_state = NoneRec
    /\ current_event_type = None
    /\ sse_pc = "idle"
    /\ sse_exc = "none"
    /\ sse_ret = Unset
    /\ sse_closed = FALSE
    /\ config = ConfiguredPublic
    /\ tool_name = None
    /\ tool_pc = "idle"
    /\ tool_result = Unset
    /\ call_op = None
    /\ call_caller = None
    /\ call_pc = "idle"
    /\ call_tid = None
    /\ post_resp = Unset
    /\ call_result = Unset
    /\ elapsed = 0
    /\ n_posts = 0
    /\ n_fetches = 0
    /\ n_processing = 0
    /\ last_status = Unset
    /\ last_fetch_tid = None
    /\ max_wait_time = DefaultMaxWaitTime
    /\ poll_interval = DefaultPollInterval
    /\ call_aid = None
    /\ cancel_pc = "idle"
    /\ cancel_tid = None
    /\ cancel_result = Unset
    /\ remote_processing = FALSE
    /\ remote_snapshot = EmptyDict
    /\ status_seen = "none"
    /\ environ = NoEnviron
    /\ config_file = [kind |-> "object", data |-> config]
    /\ cfg_call = Unset
    /\ client = NoneRec
    /\ sent = Unset
    /\ log = {}
    /\ writers = NoneRec
    /\ last_write = Unset

\* the tool body from "if 'error' in result" on, applied to the snapshot: for
\* start_thread the snapshot carries the ids of the start answer (lines 76-81)
BuildToolResult ==
    /\ fn_output = Unset
    /\ \E tool \in NormTools :
        fn_output' = [kind |-> "returned", tool |-> tool,
                      result |-> tool_return(tool, "t1",
                                    poll_data_result(tool, fn_input, Started("t1", "i1")))]
    /\ UNCHANGED fn_input
    /\ UNCHANGED <<sseVars, cfgVars, mainVars>>

NextNormalize == BuildToolResult

SpecNormalize == InitNormalize /\ [][NextNormalize]_vars

\* the truthy values of a member over a list of actions, in order
TruthyValues(acts, name) ==
    LET with == SelectSeq(acts, LAMBDA a : name \in DOMAIN a /\ a[name] \notin {Absent, None, ""})
    IN  [i \in 1..Len(with) |-> with[i][name]]

\* all artifact identifiers of a thread, from the last interaction backwards
RECURSIVE AllArtifacts(_, _, _)
AllArtifacts(ints, k, i) ==
    IF k = 0 THEN <<>>
    ELSE IF i = 0
    THEN AllArtifacts(ints, k - 1,
                      IF k = 1 THEN 0 ELSE Len(ints[k - 1].assistant_actions))
    ELSE AllArtifacts(ints, k, i - 1)
         \o (IF "artifact_identifiers" \in DOMAIN ints[k].assistant_actions[i]
             THEN ints[k].assistant_actions[i].artifact_identifiers ELSE <<>>)

ArtifactsOfThread(ints) ==
    IF ints = <<>> THEN <<>>
    ELSE AllArtifacts(ints, Len(ints), Len(ints[Len(ints)].assistant_actions))

\* C26: in a successful result of the start_thread or continue_thread tool,
\* plans, code_blocks and code_outputs hold exactly the non-empty plan, code and
\* code_output values of the actions of the latest interaction, in action
\* order, and artifacts is the concatenation, interaction by interaction and
\* action by action, duplicates kept, of the artifact_identifiers of every
\* action of the thread.
C26_NormalizerLists ==
    (fn_output # Unset /\ fn_output.result.success) =>
        LET ints == fn_input.interactions
            latest == IF ints = <<>> THEN <<>> ELSE ints[Len(ints)].assistant_actions
        IN  /\ fn_output.result.plans = TruthyValues(latest, "plan")
            /\ fn_output.result.code_blocks = TruthyValues(latest, "code")
            /\ fn_output.result.code_outputs = TruthyValues(latest, "code_output")
            /\ fn_output.result.artifacts = ArtifactsOfThread(ints)
            /\ fn_output.result.interactions_count = Len(ints)

\* two interactions: the earlier one has a plan and an artifact, the latest one
\* two actions of which one has an empty plan, and a1 is referenced twice
C26_Witness ==
    /\ fn_output # Unset
    /\ fn_output.result.success
    /\ Len(fn_input.interactions) = 2
    /\ fn_input.interactions[1].assistant_actions = <<ActPlanCode>>
    /\ fn_input.interactions[2].assistant_actions = <<ActEmptyPlan, ActOutputOnly>>
    /\ fn_output.result.plans = <<"p3">>
    /\ fn_output.result.code_blocks = <<>>
    /\ fn_output.result.code_outputs = <<"o3">>
    /\ fn_output.result.artifacts = <<"a1", "a1", "a2">>

----------------------------------------------------------------------------
(* continue_thread on a thread that other callers continue as well.  The remote
   service keeps the interactions of thread t1 as a list it only appends to;
   it takes a new message when it is not processing one. *)

MaxThreadInteractions == 3

InteractionIds == <<"i1", "i2", "i3", "i4", "i5">>
InteractionAnswers == <<"m1", "m2", "m3", "m4", "m5">>

\* position of an interaction id in the thread
IdIndex(id) == CHOOSE k \in 1..Len(InteractionIds) : InteractionIds[k] = id

RemoteInteractions == remote_snapshot.interactions

\* the service appends an interaction without actions
WithNewInteraction ==
    TsState({"interactions"},
            Append(RemoteInteractions,
                   Interaction(InteractionIds[Len(RemoteInteractions) + 1], <<>>)))

\* the service appends an action to the latest interaction
WithNewAction(action) ==
    LET n == Len(RemoteInteractions) IN
    TsState({"interactions"},
            [RemoteInteractions EXCEPT ![n].assistant_actions = Append(@, action)])

InitAppend ==
    /\ remote_processing = FALSE
    /\ remote_snapshot = TsState({"interactions"},
                                 <<Interaction("i1", <<ActMsg("complete", "m1")>>)>>)
    /\ status_seen = "none"
    /\ config = ConfiguredPublic
    /\ tool_name = None
    /\ tool_pc = "idle"
    /\ tool_result = Unset
    /\ call_op = None
    /\ call_caller = None
    /\ call_pc = "idle"
    /\ call_tid = None
    /\ call_aid = None
    /\ post_resp = Unset
    /\ call_result = Unset
    /\ elapsed = 0
    /\ n_posts = 0
    /\ n_fetches = 0
    /\ n_processing = 0
    /\ last_status = Unset
    /\ last_fetch_tid = None
    /\ max_wait_time = DefaultMaxWaitTime
    /\ poll_interval = DefaultPollInterval
    /\ cancel_pc = "idle"
    /\ cancel_tid = None
    /\ cancel_result = Unset
    /\ fn_input = EmptyDict
    /\ fn_output = Unset
    /\ sse_lines = <<>>
    /\ sse_pos = 0
    /\ thread_state = NoneRec
    /\ current_event_type = None
    /\ sse_pc = "idle"
    /\ sse_exc = "none"
    /\ sse_ret = Unset
    /\ sse_closed = FALSE
    /\ environ = NoEnviron
    /\ config_file = [kind |-> "object", data |-> config]
    /\ cfg_call = Unset
    /\ client = NoneRec
    /\ sent = Unset
    /\ log = {}
    /\ writers = NoneRec
    /\ last_write = Unset

\* a program calls client.continue_thread("t1", message)
ContinueCall ==
    /\ call_pc \in {"idle", "returned"}
    /\ BeginCall("continue_thread", "direct", "post", "t1", None)
    /\ UNCHANGED <<toolVars, fnVars, sseVars, cfgVars, cancelVars, remoteVars>>

\* _continue_thread, 457-486: the service takes the message and answers with
\* the id of the interaction it appended, or refuses with 400
ContinuePost ==
    /\ call_pc = "post"
    /\ n_posts' = n_posts + 1
    /\ IF ~remote_processing /\ Len(RemoteInteractions) < MaxThreadInteractions
       THEN LET resp == PostOk("t1", InteractionIds[Len(RemoteInteractions) + 1]) IN
            /\ post_resp' = resp
            /\ remote_snapshot' = WithNewInteraction
            /\ remote_processing' = TRUE
            /\ call_pc' = "poll"
            /\ call_tid' = poll_thread_id(call_op, call_tid, _continue_thread(resp))
            /\ UNCHANGED <<call_result, toolVars>>
       ELSE /\ post_resp' = PostHttp(400)
            /\ Returns(_continue_thread(PostHttp(400)))
            /\ UNCHANGED <<call_tid, remote_snapshot, remote_processing>>
    /\ UNCHANGED <<call_op, call_caller, elapsed, n_fetches, n_processing, last_status,
                   last_fetch_tid, max_wait_time, poll_interval, call_aid, status_seen,
                   fnVars, sseVars, cfgVars, cancelVars>>

\* another caller (a second host, the playground of the service) continues
\* the thread
OtherContinue ==
    /\ ~remote_processing
    /\ Len(RemoteInteractions) < MaxThreadInteractions
    /\ remote_snapshot' = WithNewInteraction
    /\ remote_processing' = TRUE
    /\ UNCHANGED <<status_seen, toolVars, callVars, cancelVars, fnVars, sseVars, cfgVars>>

\* the service works on the latest interaction: a step that is not the last
\* one, or the answer
RemoteWorks ==
    /\ remote_processing
    /\ \/ /\ RemoteInteractions[Len(RemoteInteractions)].assistant_actions = <<>>
          /\ remote_snapshot' = WithNewAction(ActProcessing)
          /\ UNCHANGED remote_processing
       \/ /\ remote_snapshot' =
                WithNewAction(ActMsg("complete", InteractionAnswers[Len(RemoteInteractions)]))
          /\ remote_processing' = FALSE
    /\ UNCHANGED <<status_seen, toolVars, callVars, cancelVars, fnVars, sseVars, cfgVars>>

\* the status GET of the poll is answered with the thread as it stands, or fails
AppendPollFetch ==
    PollFetchWith({GetOk(SnapshotBody(remote_snapshot), FALSE), GetHttp(500)}, {0})

NextAppend ==
    \/ ContinueCall
    \/ ContinuePost
    \/ OtherContinue
    \/ RemoteWorks
    \/ AppendPollFetch
    \/ ClientPollSleep
    \/ ClientPollTimeout

SpecAppend == InitAppend /\ [][NextAppend]_vars

\* continue_thread returned a snapshot
ContinueReturnedData == MethodReturned("continue_thread") /\ ~IsError(call_result)

\* C27: in a successful continue_thread tool result the interaction_id and the
\* answer are those of the interaction that this call's POST /continue created,
\* and interactions_count is greater than the count before the call, whatever
\* other callers do on the thread, the list of interactions only growing.
C27_ContinueReturnsOwnInteraction ==
    ContinueReturnedData =>
        LET out == continue_thread_tool(call_tid, call_result)
            mine == IdIndex(post_resp.interaction_id)
        IN  /\ out.success
            /\ out.interaction_id = post_resp.interaction_id
            /\ out.answer = InteractionAnswers[mine]
            /\ out.interactions_count > mine - 1

\* what does hold: the result is this call's interaction when no other
\* interaction was appended before the poll saw the thread complete
ContinueReturnsLatestInteraction ==
    ContinueReturnedData =>
        LET out == continue_thread_tool(call_tid, call_result)
            mine == IdIndex(post_resp.interaction_id)
        IN  /\ out.interactions_count >= mine
            /\ out.interaction_id = InteractionIds[out.interactions_count]
            /\ out.answer = InteractionAnswers[out.interactions_count]
            /\ out.interactions_count = mine => out.interaction_id = post_resp.interaction_id

----------------------------------------------------------------------------
\* The configuration store, the two configuration tools, the construction of
\* the client and the request a start or continue call sends and logs.

\* Credentials are opaque strings; Chars gives the characters of one, on which
\* the masks of setup_config and the log records are computed.  No character
\* occurs in two credentials.
ApiKeys == {"abc", "defghijk", "lmnopqrstuvw"}
AuthTokens == {"ABCD", "EFGHIJKLM", "NOPQRSTUVWXYZ"}

Chars(s) ==
    CASE s = "abc" -> <<"a", "b", "c">>
      [] s = "defghijk" -> <<"d", "e", "f", "g", "h", "i", "j", "k">>
      [] s = "lmnopqrstuvw" -> <<"l", "m", "n", "o", "p", "q", "r", "s", "t", "u", "v", "w">>
      [] s = "ABCD" -> <<"A", "B", "C", "D">>
      [] s = "EFGHIJKLM" -> <<"E", "F", "G", "H", "I", "J", "K", "L", "M">>
      [] s = "NOPQRSTUVWXYZ" ->
            <<"N", "O", "P", "Q", "R", "S", "T", "U", "V", "W", "X", "Y", "Z">>
      [] OTHER -> <<>>

\* s[:n] and s[-n:] of Python
Prefix(s, n) == SubSeq(s, 1, IF n < Len(s) THEN n ELSE Len(s))
Suffix(s, n) == SubSeq(s, IF Len(s) - n + 1 > 1 THEN Len(s) - n + 1 ELSE 1, Len(s))

Dots == <<".", ".", ".">>

\* server.py line 52
masked_key(api_key) ==
    IF api_key # ""
    THEN Prefix(Chars(api_key), 5) \o Dots \o Suffix(Chars(api_key), 5)
    ELSE <<"N", "o", "n", "e">>

\* server.py line 53
masked_token(auth_token) ==
    IF Len(Chars(auth_token)) > 12
    THEN Prefix(Chars(auth_token), 8) \o Dots \o Suffix(Chars(auth_token), 4)
    ELSE Prefix(Chars(auth_token), 4) \o Dots

\* str.lower() on the keys and modes that occur
lower(s) ==
    CASE s = "PUBLIC" -> "public"
      [] s = "Public" -> "public"
      [] s = "Private" -> "private"
      [] s = "API_KEY" -> "api_key"
      [] s = "AUTH_TOKEN" -> "auth_token"
      [] OTHER -> s

\* a config file that holds JSON which is not an object (null, a list, a
\* string, a number): json.load returns it and it becomes ConfigManager.config
NonObject == [kind |-> "nonobject"]

IsDict(cfg) == "kind" \notin DOMAIN cfg

NoConfig == [k \in Keys |-> Absent]

FileObject(data) == [kind |-> "object", data |-> data]

\* _load_config, lines 25-64: the file when it exists and parses, {} when it
\* does not parse, else the three environment values that are set
EnvMapped == {"api_key", "playground_url", "auth_token"}

_load_config(env, file) ==
    IF file.kind = "object" THEN file.data
    ELSE IF file.kind = "nonobject" THEN NonObject
    ELSE IF file.kind = "corrupt" THEN NoConfig
    ELSE [k \in Keys |-> IF k \in EnvMapped /\ Truthy(Get(env[k])) THEN env[k] ELSE Absent]

\* lines 55-62: a config taken from the environment is written to the file
\* unless the write fails
file_after_load(env, file, write_ok) ==
    IF file.kind = "missing" /\ _load_config(env, file) # NoConfig /\ write_ok
    THEN FileObject(_load_config(env, file))
    ELSE file

\* ConfigManager.get, lines 78-86
Returned(v) == [kind |-> "returned", ret |-> v]

config_get(env, cfg, key, default) ==
    IF Truthy(Get(env[lower(key)])) THEN Returned(env[lower(key)])
    ELSE IF ~IsDict(cfg) THEN Raised("AttributeError")
    ELSE IF cfg[lower(key)] = Absent THEN Returned(default)
    ELSE Returned(cfg[lower(key)])

\* ConfigManager.set, lines 88-96, on self.config: an empty value is dropped
\* with a warning; a config that is no dict cannot be assigned to
config_set(cfg, key, value) ==
    IF ~Truthy(value) THEN [kind |-> "returned", config |-> cfg, saved |-> FALSE]
    ELSE IF ~IsDict(cfg) THEN [kind |-> "raised", exc |-> "TypeError", config |-> cfg,
                               saved |-> FALSE]
    ELSE [kind |-> "returned", config |-> [cfg EXCEPT ![lower(key)] = value],
          saved |-> TRUE]

AuthModes == {"public", "private"}

\* setup_config, lines 35-83.  The four config.set calls run one after the
\* other; the first that raises ends the tool, no try block around them.
setup_config_sets(cfg, api_key, playground_url, auth_token, auth_mode) ==
    LET s1 == config_set(cfg, "api_key", api_key)
        s2 == config_set(s1.config, "playground_url", playground_url)
        s3 == config_set(s2.config, "auth_token", auth_token)
        s4 == config_set(s3.config, "auth_mode", lower(auth_mode))
    IN  <<s1, s2, s3, s4>>

setup_config_log(api_key, playground_url, auth_token, auth_mode) ==
    {masked_key(api_key), <<playground_url>>, masked_token(auth_token), <<auth_mode>>}

setup_config(cfg, api_key, playground_url, auth_token, auth_mode) ==
    LET sets == setup_config_sets(cfg, api_key, playground_url, auth_token, auth_mode)
    IN  IF lower(auth_mode) \notin AuthModes
        THEN [kind |-> "returned", success |-> FALSE, error |-> "Invalid auth_mode",
              configured_items |-> EmptyDict]
        ELSE IF \E i \in 1..4 : sets[i].kind = "raised"
        THEN Raised("TypeError")
        ELSE [kind |-> "returned", success |-> TRUE,
              configured_items |-> [api_key |-> masked_key(api_key),
                                    playground_url |-> playground_url,
                                    auth_token |-> masked_token(auth_token),
                                    auth_mode |-> lower(auth_mode)]]

\* what setup_config leaves in ConfigManager.config
setup_config_config(cfg, api_key, playground_url, auth_token, auth_mode) ==
    IF lower(auth_mode) \notin AuthModes THEN cfg
    ELSE setup_config_sets(cfg, api_key, playground_url, auth_token, auth_mode)[4].config

\* ConfigManager.is_configured, lines 98-102
is_configured(env, cfg) ==
    \A k \in {"api_key", "playground_url", "auth_token"} :
        /\ config_get(env, cfg, k, None).kind = "returned"
        /\ Truthy(config_get(env, cfg, k, None).ret)

\* check_config, lines 86-137: three config.get calls, then
\* config.get_auth_mode(), which ConfigManager does not define
check_config(env, cfg) ==
    LET api_key == config_get(env, cfg, "api_key", None)
        playground_url == config_get(env, cfg, "playground_url", None)
        auth_token == config_get(env, cfg, "auth_token", None)
    IN  IF \E r \in {api_key, playground_url, auth_token} : r.kind = "raised"
        THEN Raised("AttributeError")
        ELSE IF "get_auth_mode" \notin ConfigManagerAttributes
        THEN Raised("AttributeError")
        ELSE IF Truthy(api_key.ret) /\ Truthy(playground_url.ret) /\ Truthy(auth_token.ret)
        THEN [kind |-> "returned", configured |-> TRUE,
              configuration |-> [api_key |-> masked_key(api_key.ret),
                                 playground_url |-> playground_url.ret,
                                 auth_token |-> masked_token(auth_token.ret)]]
        ELSE [kind |-> "returned", configured |-> FALSE,
              missing_items |-> {k \in {"api_key", "playground_url", "auth_token"} :
                                    ~Truthy(config_get(env, cfg, k, None).ret)}]

\* PromptQLClient.__init__, lines 22-42
NewClient(api_key, auth_token, auth_mode) ==
    IF auth_mode = None THEN Raised("AttributeError")
    ELSE IF lower(auth_mode) \notin AuthModes THEN Raised("ValueError")
    ELSE [kind |-> "client", api_key |-> api_key, auth_token |-> auth_token,
          auth_mode |-> lower(auth_mode)]

\* the mutant: one header name for both modes
_get_ddn_headers_one_name(c) ==
    IF c.auth_mode \in AuthModes
    THEN [h \in {"Auth-Token"} |-> c.auth_token]
    ELSE Raised("ValueError")

\* _get_ddn_headers, lines 44-55: a dict of one header
_get_ddn_headers(c) ==
    IF c.auth_mode = "public" THEN [h \in {"Auth-Token"} |-> c.auth_token]
    ELSE IF c.auth_mode = "private" THEN [h \in {"x-hasura-ddn-token"} |-> c.auth_token]
    ELSE Raised("ValueError")

\* request_body of _start_thread (237-241) and _continue_thread (440-444);
\* the API key travels in the Authorization header of the request
request_body(c, op) ==
    [op |-> op, authorization |-> c.api_key, ddn_headers |-> _get_ddn_headers(c),
     timezone |-> "tz"]

\* json.dumps(request_body), lines 248-249 and 451-452: the text names every
\* member of the body and spells out the value of the DDN header
payload_text(body) ==
    LET name == CHOOSE h \in DOMAIN body.ddn_headers : TRUE
    IN  <<"user_message", "ddn_headers", name>> \o Chars(body.ddn_headers[name])
            \o <<"timezone", body.timezone>>

\* The states a ConfigManager can be constructed in.
EnvStates == {[NoEnviron EXCEPT !["api_key"] = k] : k \in {Absent, "", "abc"}}

FileStates ==
    {[kind |-> "missing"], [kind |-> "corrupt"], [kind |-> "nonobject"],
     FileObject(NoConfig),
     FileObject([NoConfig EXCEPT !["api_key"] = None]),
     FileObject([NoConfig EXCEPT !["api_key"] = "defghijk"]),
     FileObject([api_key |-> "defghijk", playground_url |-> "url",
                 auth_token |-> "EFGHIJKLM", auth_mode |-> "private"])}

AuthModeArgs == {None, "public", "private", "PUBLIC", "Private", "", "other"}

\* the rest of the program is idle while the configuration is worked on
unusedByConfig == <<call_op, call_caller, call_pc, call_tid, post_resp, call_result, elapsed,
                    n_posts, n_fetches, n_processing, last_status, last_fetch_tid,
                    max_wait_time, poll_interval, call_aid, cancelVars, remoteVars,
                    fnVars, sseVars, writers, last_write>>

InitConfig ==
    /\ environ \in EnvStates
    /\ \E file \in FileStates, write_ok \in BOOLEAN :
        /\ config = _load_config(environ, file)
        /\ config_file = file_after_load(environ, file, write_ok)
    /\ cfg_call = Unset
    /\ client = NoneRec
    /\ sent = Unset
    /\ log = {}
    /\ writers = NoneRec
    /\ last_write = Unset
    /\ tool_name = None
    /\ tool_pc = "idle"
    /\ tool_result = Unset
    /\ call_op = None
    /\ call_caller = None
    /\ call_pc = "idle"
    /\ call_tid = None
    /\ post_resp = Unset
    /\ call_result = Unset
    /\ elapsed = 0
    /\ n_posts = 0
    /\ n_fetches = 0
    /\ n_processing = 0
    /\ last_status = Unset
    /\ last_fetch_tid = None
    /\ max_wait_time = DefaultMaxWaitTime
    /\ poll_interval = DefaultPollInterval
    /\ call_aid = None
    /\ cancel_pc = "idle"
    /\ cancel_tid = None
    /\ cancel_result = Unset
    /\ remote_processing = FALSE
    /\ remote_snapshot = EmptyDict
    /\ status_seen = "none"
    /\ fn_input = EmptyDict
    /\ fn_output = Unset
    /\ sse_lines = <<>>
    /\ sse_pos = 0
    /\ thread_state = NoneRec
    /\ current_event_type = None
    /\ sse_pc = "idle"
    /\ sse_exc = "none"
    /\ sse_ret = Unset
    /\ sse_closed = FALSE

NoTool ==
    /\ tool_name' = None
    /\ tool_pc' = "idle"
    /\ tool_result' = Unset

\* a program calls config.get(key, default)
ConfigGet ==
    /\ \E key \in {"api_key", "API_KEY", "auth_token"}, default \in {None, "d"} :
        cfg_call' = [op |-> "get", key |-> key, value |-> default,
                     result |-> config_get(environ, config, key, default)]
    /\ log' = {}
    /\ NoTool
    /\ sent' = Unset
    /\ UNCHANGED <<environ, config, config_file, client, unusedByConfig>>

\* a program calls config.set(key, value); save_config may fail to write the
\* file, which it logs and swallows (lines 66-76)
ConfigSet ==
    /\ \E key \in {"api_key", "API_KEY"}, value \in {"", "abc"},
          write_ok \in BOOLEAN :
        LET r == config_set(config, key, value)
        IN  /\ config' = r.config
            /\ config_file' = IF r.saved /\ write_ok THEN FileObject(r.config)
                              ELSE config_file
            /\ cfg_call' = [op |-> "set", key |-> key, value |-> value,
                            result |-> IF r.kind = "raised" THEN Raised(r.exc)
                                       ELSE Returned(None)]
    /\ log' = {}
    /\ NoTool
    /\ sent' = Unset
    /\ UNCHANGED <<environ, client, unusedByConfig>>

\* the host calls the setup_config tool; the file ends as the last
\* save_config left it, or as it was when the writes failed
HostCallsSetupConfig ==
    /\ \E api_key \in ApiKeys \cup {""}, auth_token \in {"ABCD", "NOPQRSTUVWXYZ"},
          auth_mode \in {"Private", "other"} :
        LET r == setup_config(config, api_key, "url", auth_token, auth_mode)
            sets == setup_config_sets(config, api_key, "url", auth_token, auth_mode)
        IN  /\ tool_name' = "setup_config"
            /\ tool_pc' = r.kind
            /\ tool_result' = r
            /\ log' = setup_config_log(api_key, "url", auth_token, auth_mode)
            /\ config' = setup_config_config(config, api_key, "url", auth_token, auth_mode)
            /\ config_file' \in
                 {config_file} \cup
                 (IF lower(auth_mode) \in AuthModes /\ \E i \in 1..4 : sets[i].saved
                  THEN {FileObject(sets[4].config)}
                  ELSE {})
            /\ cfg_call' = [op |-> "setup_config", api_key |-> api_key,
                            playground_url |-> "url", auth_token |-> auth_token,
                            auth_mode |-> auth_mode]
    /\ sent' = Unset
    /\ UNCHANGED <<environ, client, unusedByConfig>>

\* the host calls the check_config tool
HostCallsCheckConfig ==
    /\ tool_name' = "check_config"
    /\ tool_pc' = check_config(environ, config).kind
    /\ tool_result' = check_config(environ, config)
    /\ log' = {}
    /\ cfg_call' = Unset
    /\ sent' = Unset
    /\ UNCHANGED <<environ, config, config_file, client, unusedByConfig>>

\* a program constructs a PromptQLClient; when __init__ raises it holds none
ConstructClient ==
    /\ \E api_key \in {"abc"}, auth_token \in {"ABCD", "NOPQRSTUVWXYZ"},
          auth_mode \in AuthModeArgs :
        LET r == NewClient(api_key, auth_token, auth_mode)
        IN  /\ cfg_call' = [op |-> "construct", key |-> "auth_mode", value |-> auth_mode,
                            result |-> IF r.kind = "raised" THEN r ELSE Returned(None)]
            /\ client' = IF r.kind = "raised" THEN NoneRec ELSE r
            /\ log' = IF r.kind = "raised" THEN {} ELSE {<<r.auth_mode>>}
    /\ sent' = Unset
    /\ NoTool
    /\ UNCHANGED <<environ, config, config_file, unusedByConfig>>

\* _start_thread or _continue_thread builds the request body, logs it and
\* sends the request
ClientSendsRequest ==
    /\ client.kind = "client"
    /\ \E op \in {"start_thread", "continue_thread"} :
        /\ sent' = request_body(client, op)
        /\ log' = {payload_text(request_body(client, op))}
    /\ cfg_call' = Unset
    /\ NoTool
    /\ UNCHANGED <<environ, config, config_file, client, unusedByConfig>>

NextConfig ==
    \/ ConfigGet
    \/ ConfigSet
    \/ HostCallsSetupConfig
    \/ HostCallsCheckConfig
    \/ ConstructClient
    \/ ClientSendsRequest

SpecConfig == InitConfig /\ [][NextConfig]_vars

----------------------------------------------------------------------------
\* Properties of the configuration tools, the DDN header, the log records and
\* the configuration store

ConfigToolCalled == tool_name \in {"setup_config", "check_config"}

\* C24: no exception escapes the tool boundary: whatever the configuration
\* state, setup_config and check_config return a structured result to the
\* host and never raise.
C24_NoExceptionEscapes ==
    ConfigToolCalled => tool_pc = "returned" /\ tool_result.kind = "returned"

\* what the code does: check_config is always left by an exception, and
\* setup_config is when ConfigManager.config is no dict and the mode is valid
ConfigToolsRaise ==
    /\ tool_name = "check_config" => tool_pc = "raised"
    /\ tool_name = "setup_config" =>
         (tool_pc = "raised" <=> (~IsDict(config) /\ tool_result = Raised("TypeError")))
    /\ (tool_name = "setup_config" /\ IsDict(config)) => tool_pc = "returned"

RequestSent == "ddn_headers" \in DOMAIN sent
Constructing == "op" \in DOMAIN cfg_call /\ cfg_call.op = "construct"

\* C28: every start and continue request carries in ddn_headers exactly one
\* header, named Auth-Token for a public client and x-hasura-ddn-token for a
\* private one, holding the auth token; a client exists only when the
\* auth_mode it was constructed with is public or private in some letter case.
C28_AuthHeaderSelection ==
    /\ client.kind = "client" => client.auth_mode \in AuthModes
    /\ Constructing =>
         /\ client.kind = "client" <=>
                (cfg_call.value # None /\ lower(cfg_call.value) \in AuthModes)
         /\ client.kind = "client" => client.auth_mode = lower(cfg_call.value)
    /\ RequestSent =>
         /\ client.kind = "client"
         /\ DOMAIN sent.ddn_headers =
                {IF client.auth_mode = "public" THEN "Auth-Token" ELSE "x-hasura-ddn-token"}
         /\ \A h \in DOMAIN sent.ddn_headers : sent.ddn_headers[h] = client.auth_token

\* a private client has sent a request
C28_Witness ==
    /\ RequestSent
    /\ client.auth_mode = "private"
    /\ DOMAIN sent.ddn_headers = {"x-hasura-ddn-token"}

\* a client constructed with a mode in capitals exists
ConstructedFromCapitals ==
    Constructing /\ cfg_call.value = "PUBLIC" /\ client.kind = "client"

Credentials == ApiKeys \cup AuthTokens

\* the text holds the credential as a whole
Contains(text, cred) ==
    \E i \in 1..Len(text) :
        /\ i + Len(cred) - 1 <= Len(text)
        /\ SubSeq(text, i, i + Len(cred) - 1) = cred

\* every character of the credential can be read off the text
ShownInFull(text, cred) ==
    \A i \in 1..Len(cred) : \E j \in 1..Len(text) : text[j] = cred[i]

\* C29: no log record contains a full API key or auth token; a credential
\* in a log record has part of its characters left out, whatever its length.
C29_CredentialsOnlyMasked ==
    \A text \in log : \A c \in Credentials :
        /\ ~Contains(text, Chars(c))
        /\ ~ShownInFull(text, Chars(c))

\* what the code does: the masks of setup_config leave characters out of API
\* keys longer than 10 and of auth tokens longer than 4 characters
LongCredentialsMasked ==
    tool_name = "setup_config" =>
        \A text \in log :
            /\ \A k \in ApiKeys : Len(Chars(k)) > 10 => ~ShownInFull(text, Chars(k))
            /\ \A t \in AuthTokens : Len(Chars(t)) > 4 => ~ShownInFull(text, Chars(t))

\* the request payload in the log spells out the auth token
PayloadLogsToken == RequestSent => \E text \in log : Contains(text, Chars(client.auth_token))

StoreCalled(op) == "op" \in DOMAIN cfg_call /\ cfg_call.op = op

EnvValue(key) == environ[lower(key)]

\* C30: get(key) returns the environment value when that is set and
\* non-empty and the value held in the file data otherwise; after
\* set(key, v) a get(key) returns v unless such an environment value exists.
C30_ConfigPrecedence ==
    /\ StoreCalled("get") =>
         /\ cfg_call.result.kind = "returned"
         /\ Truthy(Get(EnvValue(cfg_call.key))) =>
                cfg_call.result.ret = EnvValue(cfg_call.key)
         /\ (~Truthy(Get(EnvValue(cfg_call.key))) /\ IsDict(config)) =>
                cfg_call.result.ret =
                    IF config[lower(cfg_call.key)] = Absent THEN cfg_call.value
                    ELSE config[lower(cfg_call.key)]
    /\ StoreCalled("set") =>
         /\ cfg_call.result.kind = "returned"
         /\ config_get(environ, config, cfg_call.key, None) =
                Returned(IF Truthy(Get(EnvValue(cfg_call.key)))
                         THEN EnvValue(cfg_call.key) ELSE cfg_call.value)

\* what the code does: the precedence holds when ConfigManager.config is a
\* dict and the value set is not empty
ConfigPrecedenceOnDict ==
    /\ (StoreCalled("get") /\ IsDict(config)) =>
         cfg_call.result =
            Returned(IF Truthy(Get(EnvValue(cfg_call.key))) THEN EnvValue(cfg_call.key)
                     ELSE IF config[lower(cfg_call.key)] = Absent THEN cfg_call.value
                     ELSE config[lower(cfg_call.key)])
    /\ (StoreCalled("set") /\ IsDict(config) /\ Truthy(cfg_call.value)) =>
         /\ cfg_call.result.kind = "returned"
         /\ config_get(environ, config, cfg_call.key, None) =
                Returned(IF Truthy(Get(EnvValue(cfg_call.key)))
                         THEN EnvValue(cfg_call.key) ELSE cfg_call.value)

----------------------------------------------------------------------------
\* Two processes, each with its own ConfigManager, over one config file.
\* save_config (lines 66-76) opens the file for writing, which truncates it,
\* and json.dump and the close of the with block write the text at the start
\* of the file; nothing locks the file between the two steps.

Procs == {"A", "B"}

\* The text json.dump(config, f, indent=2) writes, line by line: a brace, one
\* line per member, a brace.
KeyOrder == <<"api_key", "playground_url", "auth_token", "auth_mode">>

RECURSIVE member_lines(_, _)
member_lines(cfg, i) ==
    IF i > Len(KeyOrder) THEN <<>>
    ELSE (IF cfg[KeyOrder[i]] # Absent
          THEN <<[t |-> "member", key |-> KeyOrder[i], value |-> cfg[KeyOrder[i]]]>>
          ELSE <<>>)
         \o member_lines(cfg, i + 1)

json_dump(cfg) == <<[t |-> "{"]>> \o member_lines(cfg, 1) \o <<[t |-> "}"]>>

\* json.load of the file; a text that is no JSON document makes _load_config
\* return {} (lines 37-44)
json_load(lines) ==
    LET cfg == [k \in Keys |->
                  IF \E i \in 1..Len(lines) : lines[i].t = "member" /\ lines[i].key = k
                  THEN lines[CHOOSE i \in 1..Len(lines) :
                                 lines[i].t = "member" /\ lines[i].key = k].value
                  ELSE Absent]
    IN  IF json_dump(cfg) = lines THEN cfg ELSE NoConfig

\* a write at offset 0 of a file that another process wrote in the meantime:
\* what lies beyond the end of the new text stays
write_at_start(old, new) ==
    IF Len(old) > Len(new) THEN new \o SubSeq(old, Len(new) + 1, Len(old)) ELSE new

FileText(lines) == [kind |-> "text", lines |-> lines]

InitialFile == [NoConfig EXCEPT !["api_key"] = "k0"]

\* the value a process sets: the empty string, or a value of its own
WriterValue(p) == IF p = "A" THEN "vA" ELSE "vB"

InitWriters ==
    /\ config_file = FileText(json_dump(InitialFile))
    /\ writers = [p \in Procs |-> [config |-> InitialFile, pc |-> "idle"]]
    /\ last_write = Unset
    /\ environ = NoEnviron
    /\ config = InitialFile
    /\ cfg_call = Unset
    /\ client = NoneRec
    /\ sent = Unset
    /\ log = {}
    /\ tool_name = None
    /\ tool_pc = "idle"
    /\ tool_result = Unset
    /\ call_op = None
    /\ call_caller = None
    /\ call_pc = "idle"
    /\ call_tid = None
    /\ post_resp = Unset
    /\ call_result = Unset
    /\ elapsed = 0
    /\ n_posts = 0
    /\ n_fetches = 0
    /\ n_processing = 0
    /\ last_status = Unset
    /\ last_fetch_tid = None
    /\ max_wait_time = DefaultMaxWaitTime
    /\ poll_interval = DefaultPollInterval
    /\ call_aid = None
    /\ cancel_pc = "idle"
    /\ cancel_tid = None
    /\ cancel_result = Unset
    /\ remote_processing = FALSE
    /\ remote_snapshot = EmptyDict
    /\ status_seen = "none"
    /\ fn_input = EmptyDict
    /\ fn_output = Unset
    /\ sse_lines = <<>>
    /\ sse_pos = 0
    /\ thread_state = NoneRec
    /\ current_event_type = None
    /\ sse_pc = "idle"
    /\ sse_exc = "none"
    /\ sse_ret = Unset
    /\ sse_closed = FALSE

unusedByWriters == <<environ, config, cfg_call, client, sent, log, tool_name, tool_pc,
                     tool_result, callVars, cancelVars, remoteVars, fnVars, sseVars>>

\* process p calls config.set(key, value): the value is stored and save_config
\* opens the file, which is empty from then on; an empty value stops at line 92
WriterSet(p) ==
    /\ writers[p].pc = "idle"
    /\ \E key \in {"api_key", "auth_token"}, value \in {"", WriterValue(p)} :
        LET r == config_set(writers[p].config, key, value)
        IN  IF r.saved
            THEN /\ writers' = [writers EXCEPT ![p] = [config |-> r.config, pc |-> "opened"]]
                 /\ config_file' = FileText(<<>>)
            ELSE UNCHANGED <<writers, config_file>>
    /\ UNCHANGED <<last_write, unusedByWriters>>

\* json.dump and the end of the with block: the text goes to the start of the file
WriterDump(p) ==
    /\ writers[p].pc = "opened"
    /\ config_file' = FileText(write_at_start(config_file.lines, json_dump(writers[p].config)))
    /\ writers' = [writers EXCEPT ![p].pc = "idle"]
    /\ last_write' = [proc |-> p, config |-> writers[p].config]
    /\ UNCHANGED unusedByWriters

\* process p starts anew: ConfigManager.__init__ loads the file as it is
WriterStarts(p) ==
    /\ writers[p].pc = "idle"
    /\ writers' = [writers EXCEPT ![p].config = json_load(config_file.lines)]
    /\ UNCHANGED <<config_file, last_write, unusedByWriters>>

WriterSets == \E p \in Procs : WriterSet(p)
WriterDumps == \E p \in Procs : WriterDump(p)
WriterRestarts == \E p \in Procs : WriterStarts(p)

NextWriters == WriterSets \/ WriterDumps \/ WriterRestarts

SpecWriters == InitWriters /\ [][NextWriters]_vars

NoWriteInProgress == \A p \in Procs : writers[p].pc = "idle"

\* C31: with two processes writing the same config file, after the last write
\* the file holds the complete in-memory configuration of the process that
\* wrote last, and nothing else, for every interleaving of their set calls.
C31_LastWriterWins ==
    (NoWriteInProgress /\ last_write # Unset) =>
        config_file.lines = json_dump(last_write.config)

\* what the code does: the file begins with the text of the last writer; set
\* calls that do not overlap leave exactly that text
LastWriterTextLeadsFile ==
    (NoWriteInProgress /\ last_write # Unset) =>
        /\ Len(config_file.lines) >= Len(json_dump(last_write.config))
        /\ SubSeq(config_file.lines, 1, Len(json_dump(last_write.config)))
                = json_dump(last_write.config)

\* a file that no longer parses: the last writer's text followed by the rest
\* of the other process's longer text
TornFile ==
    /\ NoWriteInProgress
    /\ last_write # Unset
    /\ Len(config_file.lines) > Len(json_dump(last_write.config))
    /\ json_load(config_file.lines) = NoConfig

----------------------------------------------------------------------------
\* Properties of setup_config

SetupReturned ==
    /\ tool_name = "setup_config"
    /\ tool_pc = "returned"
    /\ StoreCalled("setup_config")

\* the four values as get returns them are those the tool was called with
StoredAsGiven ==
    /\ config_get(environ, config, "api_key", None) = Returned(cfg_call.api_key)
    /\ config_get(environ, config, "playground_url", None) = Returned(cfg_call.playground_url)
    /\ config_get(environ, config, "auth_token", None) = Returned(cfg_call.auth_token)
    /\ config_get(environ, config, "auth_mode", None) = Returned(lower(cfg_call.auth_mode))

\* C38: with no PROMPTQL_* variable set, a setup_config that returns
\* success=true has stored the four values it was given: is_configured() is
\* true and get returns the api_key, playground_url, auth_token and the
\* lower-cased auth_mode passed in.
C38_SetupSuccessMeansConfigured ==
    (SetupReturned /\ environ = NoEnviron /\ tool_result.success) =>
        /\ is_configured(environ, config)
        /\ StoredAsGiven

\* what the code does: the values are stored as given when none of them is empty
SetupStoresNonEmptyValues ==
    (SetupReturned /\ environ = NoEnviron /\ tool_result.success
        /\ cfg_call.api_key # "" /\ cfg_call.auth_token # "") =>
        /\ is_configured(environ, config)
        /\ StoredAsGiven

\* what the code does: a setup_config refused for its auth_mode changes neither
\* the stored configuration nor the file
RefusedSetupChangesNothing ==
    [][(tool_name' = "setup_config" /\ tool_pc' = "returned" /\ ~tool_result'.success)
          => UNCHANGED <<config, config_file>>]_vars

\* success was reported for an empty API key over an empty configuration
SetupSuccessUnconfigured ==
    /\ SetupReturned
    /\ tool_result.success
    /\ cfg_call.api_key = ""
    /\ ~is_configured(environ, config)
====
